---- MODULE Spec2Model ----
(***************************************************************************)
(* UK capital gains calculator (cgt_calc): the first pass                  *)
(* HmrcTransactions.from_broker_transactions, which turns a date-ordered   *)
(* list of broker transactions into per-(date, symbol) acquisition and     *)
(* disposal logs, and the second pass                                      *)
(* CapitalGainsCalculator.calculate_capital_gain, which walks the dates    *)
(* and matches every disposal by the same-day, bed-and-breakfast and       *)
(* Section 104 rules.                                                      *)
(*                                                                         *)
(* Numbers.  The code computes with decimal.Decimal (28 significant        *)
(* digits).  Amounts are modelled as exact rationals <<n, d>> in lowest    *)
(* terms, so a residue of the 28th digit that the code's tolerances        *)
(* (round_decimal(x, 23), round_decimal(x, 10)) absorb does not exist in   *)
(* the model; round_decimal(x, 2) is computed digit for digit.  Quantities *)
(* are whole numbers, all transactions are in GBP (to_gbp returns the      *)
(* amount unchanged for GBP).                                              *)
(***************************************************************************)
EXTENDS Integers, Sequences, FiniteSets, TLC

(***************************************************************************)
(* Bounds of the model and the inputs of a run.                            *)
(***************************************************************************)
MaxTx == 4          \* length of the broker transaction list
MaxQty == 2         \* quantity of one BUY / SELL / SPIN_OFF transaction
Commission == 1     \* fees of every BUY and SELL transaction
FeeAmount == 2      \* amount charged by a FEE transaction
TaxYearStart == 2   \* get_tax_year_start(tax_year), as a day number
TaxYearEnd == 32    \* get_tax_year_end(tax_year), as a day number

INTERNAL_START_DATE == 1
BED_AND_BREAKFAST_DAYS == 30
\* CAPITAL_GAIN_ALLOWANCES: the allowance of the tax years that have one.
ListedTaxYear == 2023
UnlistedTaxYear == 2040
ListedAllowance == 6000
CAPITAL_GAIN_ALLOWANCES == [y \in {ListedTaxYear} |-> ListedAllowance]
\* The tax years a run can be made for.
TaxYears == {ListedTaxYear, UnlistedTaxYear}
\* dict.get(key) of a key the dict does not hold: None.
NoAllowance == -1
dict_get(table, key) == IF key \in DOMAIN table THEN table[key] ELSE NoAllowance

SpinOffQty == 1     \* quantity received by one SPIN_OFF transaction
GrantQty == 1       \* quantity of one STOCK_ACTIVITY / STOCK_SPLIT transaction
CashIn == 25        \* amount of a transaction that pays cash in
CashOut == 3        \* amount of a transaction that takes cash out

\* The (broker, currency) pairs of the transactions; the transactions in
\* shares are all of the pair SharePair.
SharePair == <<"Charles Schwab", "USD">>
Pairs == {SharePair, <<"Trading212", "GBP">>}

Symbols == {"A", "B"}
\* The symbols a BUY, a FEE and a SPIN_OFF transaction of the list can name.
BuySymbols == {"A"}
FeeSymbols == {"A"}
SpinOffSymbols == {"B"}
\* The days on which the broker transactions of a run can be dated.
TradingDays == {1, 2, 7, 32}
\* The days after the end of the tax year on which the list can hold a BUY.
AfterYearDays == {33}
TransactionDays == TradingDays \cup AfterYearDays
\* The days on which the list can hold a SPIN_OFF and a FEE transaction.
SpinOffDays == {2}
FeeDays == {7}
\* The days on which the list can hold a transaction of the other kinds.
OtherDays == {1}
\* The amounts of the transactions that only move cash.
CashAmounts == {CashIn, -CashOut}
\* ActionType
ActionTypes ==
    {"UNKNOWN", "BUY", "SELL", "TRANSFER", "STOCK_ACTIVITY", "DIVIDEND", "TAX",
     "FEE", "ADJUSTMENT", "CAPITAL_GAIN", "SPIN_OFF", "INTEREST",
     "REINVEST_SHARES", "REINVEST_DIVIDENDS", "WIRE_FUNDS_RECEIVED",
     "STOCK_SPLIT", "CASH_MERGER"}
\* Quoted price of a BUY (SELL) transaction dated d.
BuyPrice(d) == CASE d = 1 -> 10 [] d = 2 -> 12 [] d = 7 -> 8 [] OTHER -> 14
SellPrice(d) == BuyPrice(d) + 3

(***************************************************************************)
(* Decimal arithmetic, as exact rationals <<numerator, denominator>>.      *)
(***************************************************************************)
RECURSIVE GCD(_, _)
GCD(a, b) == IF b = 0 THEN a ELSE GCD(b, a % b)

Abs(x) == IF x < 0 THEN -x ELSE x

Norm(n, d) ==
    LET g == GCD(Abs(n), Abs(d))
        s == IF d < 0 THEN -1 ELSE 1
    IN  <<(s * n) \div g, (s * d) \div g>>

Dec(n) == <<n, 1>>
Zero == Dec(0)
DAdd(a, b) == Norm(a[1] * b[2] + b[1] * a[2], a[2] * b[2])
DNeg(a) == <<-a[1], a[2]>>
DSub(a, b) == DAdd(a, DNeg(b))
DMul(a, b) == Norm(a[1] * b[1], a[2] * b[2])
DDiv(a, b) == Norm(a[1] * b[2], a[2] * b[1])
DLt(a, b) == a[1] * b[2] < b[1] * a[2]
DLe(a, b) == a[1] * b[2] <= b[1] * a[2]
DAbs(a) == <<Abs(a[1]), a[2]>>
Min(a, b) == IF a < b THEN a ELSE b

\* round_decimal(value, 2): ROUND_HALF_UP (ties away from zero) to 2 places.
round_decimal_2(v) ==
    LET m == (Abs(v[1]) * 200 + v[2]) \div (2 * v[2])
    IN  Norm(IF v[1] < 0 THEN -m ELSE m, 100)

\* round_decimal(value, 23) == 0 and round_decimal(value, 10) == 0: a
\* rational whose denominator is far below 10^10 rounds to 0 only if it is 0.
rounds_to_zero(v) == v[1] = 0

\* abs(val_a - val_b) < Decimal("0.10")
_approx_equal(val_a, val_b) == DLt(DAbs(DSub(val_a, val_b)), <<1, 10>>)

(***************************************************************************)
(* Data model.                                                             *)
(***************************************************************************)
HmrcTransactionData(q, a, f) == [quantity |-> q, amount |-> a, fees |-> f]
NoData == HmrcTransactionData(0, Zero, Zero)
Position(q, a) == [quantity |-> q, amount |-> a]
NoPosition == Position(0, Zero)

\* An HmrcTransactionLog: the entries by <<date, symbol>> and the order in
\* which the keys were inserted (the dicts iterate in insertion order).
EmptyLog == [order |-> <<>>, at |-> [k \in {} |-> NoData]]

has_key(log, date, symbol) == <<date, symbol>> \in DOMAIN log.at

Lookup(log, date, symbol) == log.at[<<date, symbol>>]

add_to_list(log, date, symbol, quantity, amount, fees) ==
    LET k == <<date, symbol>>
    IN  IF k \in DOMAIN log.at
        THEN [log EXCEPT !.at[k] =
                 HmrcTransactionData(@.quantity + quantity,
                                     DAdd(@.amount, amount),
                                     DAdd(@.fees, fees))]
        ELSE [order |-> Append(log.order, k),
              at |-> (k :> HmrcTransactionData(quantity, amount, fees)) @@ log.at]

\* The symbols of a date, in insertion order.
RECURSIVE SymbolsOn(_, _)
SymbolsOn(order, date) ==
    IF order = <<>> THEN <<>>
    ELSE IF Head(order)[1] = date
         THEN <<Head(order)[2]>> \o SymbolsOn(Tail(order), date)
         ELSE SymbolsOn(Tail(order), date)

\* A date that no transaction has (None).
NoDate == INTERNAL_START_DATE - 1

\* The SpinOff record.  nth tells the records of one date apart (the objects
\* are distinct even when their fields are equal): the nth appended that date.
SpinOff(dest, source, cost_proportion, date, nth) ==
    [dest |-> dest, source |-> source,
     cost_proportion |-> cost_proportion, date |-> date, nth |-> nth]
NoSpinOff == SpinOff("none", "none", Zero, NoDate, 0)

\* gain=None of a SPIN_OFF entry: no Decimal.
None == <<0, 0>>

CalculationEntry(rule_type, quantity, amount, fees, new_quantity, new_pool_cost, gain, allowable_cost, bed_and_breakfast_date_index, spin_off) ==
    [rule_type |-> rule_type, quantity |-> quantity, amount |-> amount,
     fees |-> fees, new_quantity |-> new_quantity, new_pool_cost |-> new_pool_cost,
     gain |-> gain, allowable_cost |-> allowable_cost,
     bed_and_breakfast_date_index |-> bed_and_breakfast_date_index,
     spin_off |-> spin_off]

\* CalculationEntry.__post_init__: the assertion holds for the entry.
post_init_ok(e) ==
    (DLe(Zero, e.amount) /\ e.rule_type # "SPIN_OFF")
        => e.gain = DSub(e.amount, e.allowable_cost)

NoTotals ==
    [disposal_count |-> 0, disposal_proceeds |-> Zero, allowable_costs |-> Zero,
     capital_gain |-> Zero, capital_loss |-> Zero]

\* What a call of the second pass returned, with what the call saw and left:
\* the records its spin-off loop applied, the symbol's pool at the start of
\* the date (opening), before the call and after it, and the pool cost its
\* matching rules started from (current_amount).
NoReturn ==
    [call |-> "none", symbol |-> "none", date |-> NoDate,
     chargeable_gain |-> Zero, entries |-> <<>>,
     spin_off_entry |-> <<>>, applied |-> <<>>,
     opening |-> NoPosition, before |-> NoPosition, after |-> NoPosition,
     current_amount |-> Zero]

\* No CapitalGainsReport: calculate_capital_gain has not returned.
NoReport ==
    [returned |-> FALSE, tax_year |-> 0,
     disposal_count |-> 0, disposal_proceeds |-> Zero,
     allowable_costs |-> Zero, capital_gain |-> Zero, capital_loss |-> Zero,
     capital_gain_allowance |-> None]

(***************************************************************************)
(* State.                                                                  *)
(***************************************************************************)
VARIABLES
    pc,                \* "first" | "second" | "done" | "failed"
    error,             \* name of the exception that ended the run, or "none"
    raised_at,         \* source line of the raise / assert that ended it, or 0
    tx_count,          \* transactions consumed by the first pass
    tx_limit,          \* the most transactions the list of this run can hold
    last_date,         \* date of the last transaction consumed
    balance_check,     \* HmrcTransactions.balance_check
    balance,           \* cash balance of each (broker, currency) pair
    acquisition_list,  \* HmrcTransactions.acquisition_list
    disposal_list,     \* HmrcTransactions.disposal_list
    hmrc_portfolio,    \* HmrcTransactions.portfolio (keys present only)
    spin_offs,         \* HmrcTransactions.spin_offs: date -> list of SpinOff
    date_index,        \* the date the second pass is at
    todo_acq,          \* symbols of date_index whose acquisition is still to process
    todo_disp,         \* symbols of date_index whose disposal is still to process
    portfolio,         \* CapitalGainsCalculator.portfolio
    bnb_list,          \* CapitalGainsCalculator.bnb_list
    calculation_log,   \* calculation_log of calculate_capital_gain
    totals,            \* disposal_count, disposal_proceeds, allowable_costs,
                       \* capital_gain, capital_loss of calculate_capital_gain
    ret,               \* what the last _process_acquisition / _process_disposal returned
    opening,           \* the portfolio when the loop reached date_index
    applied_log,       \* every SpinOff record the spin-off loop has applied, in order
    cost_log,          \* per symbol, the allowable cost of every tier entry so far
    report             \* the CapitalGainsReport returned, or NoReport

first_vars == <<tx_count, tx_limit, last_date, balance_check, balance,
                acquisition_list, disposal_list, hmrc_portfolio>>
second_vars == <<date_index, todo_acq, todo_disp, portfolio, bnb_list,
                 calculation_log, totals, ret, opening, applied_log, cost_log,
                 report>>
vars == <<pc, error, raised_at, first_vars, spin_offs, second_vars>>

Init ==
    /\ pc = "first"
    /\ error = "none"
    /\ raised_at = 0
    /\ tx_count = 0
    /\ tx_limit = MaxTx
    /\ last_date = INTERNAL_START_DATE
    /\ balance_check \in BOOLEAN
    /\ balance = [pair \in Pairs |-> Zero]
    /\ acquisition_list = EmptyLog
    /\ disposal_list = EmptyLog
    /\ hmrc_portfolio = [s \in {} |-> NoPosition]
    /\ spin_offs = [d \in TransactionDays |-> <<>>]
    /\ date_index = NoDate
    /\ todo_acq = <<>>
    /\ todo_disp = <<>>
    /\ portfolio = [s \in Symbols |-> NoPosition]
    /\ bnb_list = EmptyLog
    /\ calculation_log = [k \in {} |-> <<>>]
    /\ totals = NoTotals
    /\ ret = NoReturn
    /\ opening = [s \in Symbols |-> NoPosition]
    /\ applied_log = <<>>
    /\ cost_log = [s \in Symbols |-> Zero]
    /\ report = NoReport

(***************************************************************************)
(* First pass: HmrcTransactions.from_broker_transactions.                  *)
(***************************************************************************)
\* SpinOffHandler.get_spin_off_source: the other symbol of the pair.
get_spin_off_source(symbol) == IF symbol = "A" THEN "B" ELSE "A"

\* CurrentPriceFetcher.get_closing_price.
get_closing_price(symbol, date) == IF symbol = "A" THEN 9 ELSE 1

\* self.portfolio[symbol] of the defaultdict(Position), without inserting.
PositionOf(pf, symbol) ==
    IF symbol \in DOMAIN pf THEN pf[symbol] ELSE NoPosition

\* self.portfolio[symbol] = position (inserts the key when missing).
SetPosition(pf, symbol, position) ==
    [s \in DOMAIN pf \cup {symbol} |->
        IF s = symbol THEN position ELSE pf[s]]

\* Position.__add__ and Position.__sub__
PositionAdd(p, o) == Position(p.quantity + o.quantity, DAdd(p.amount, o.amount))
PositionSub(p, o) == Position(p.quantity - o.quantity, DSub(p.amount, o.amount))

\* A bug: the balance is never found negative.
negative_balance_missed(new_balance) == FALSE

\* new_balance < 0
negative_balance(new_balance) == DLt(new_balance, Zero)

\* The end of one iteration of the loop: the balance check and the store of
\* the new balance.
EndOfTransaction(d, pair, new_balance) ==
    /\ tx_count' = tx_count + 1
    /\ last_date' = d
    /\ IF balance_check /\ negative_balance(new_balance)
       THEN /\ pc' = "failed" /\ error' = "CalculationError" /\ raised_at' = 355
            /\ balance' = balance
       ELSE /\ pc' = "first" /\ error' = "none" /\ raised_at' = 0
            /\ balance' = [balance EXCEPT ![pair] = new_balance]

\* The transaction raised: the run ends with what was written before.
Raise(name, line) ==
    /\ UNCHANGED <<tx_count, last_date>>
    /\ pc' = "failed"
    /\ error' = name
    /\ raised_at' = line
    /\ balance' = balance

\* A next transaction of the date-ordered list can be dated d.
CanRead(d) == pc = "first" /\ tx_count < tx_limit /\ d >= last_date

\* BUY (and REINVEST_SHARES): _add_acquisition with the quoted price.
Buy(d, s, q) ==
    LET price == Dec(BuyPrice(d))
        fees == Dec(Commission)
        tx_amount == DNeg(DAdd(DMul(Dec(q), price), fees))
        calculated_amount == DAdd(DMul(Dec(q), price), fees)
        amount == DNeg(tx_amount)
    IN  /\ CanRead(d)
        /\ IF ~_approx_equal(tx_amount, DNeg(calculated_amount))
           THEN /\ Raise("CalculatedAmountDiscrepancyError", 118)
                /\ UNCHANGED <<acquisition_list, hmrc_portfolio>>
           ELSE /\ hmrc_portfolio' =
                       SetPosition(hmrc_portfolio, s,
                           PositionAdd(PositionOf(hmrc_portfolio, s),
                                       Position(q, amount)))
                /\ acquisition_list' =
                       add_to_list(acquisition_list, d, s, q, amount, fees)
                /\ EndOfTransaction(d, SharePair, DAdd(balance[SharePair], tx_amount))
        /\ UNCHANGED <<tx_limit, balance_check, disposal_list, spin_offs, second_vars>>

\* _handle_spin_off: the cost proportion kept by the source and the amount
\* of the new shares.
_handle_spin_off(d, symbol, quantity) ==
    LET ticker == get_spin_off_source(symbol)
        dst_price == Dec(get_closing_price(symbol, d))
        src_price == Dec(get_closing_price(ticker, d))
        dst_amount == DMul(Dec(quantity), dst_price)
        src_amount == DMul(Dec(PositionOf(hmrc_portfolio, ticker).quantity), src_price)
        original_src_amount == PositionOf(hmrc_portfolio, ticker).amount
        share_of_original_cost == DDiv(src_amount, DAdd(dst_amount, src_amount))
        amount == DMul(DSub(Dec(1), share_of_original_cost), original_src_amount)
    IN  [spin_off |-> SpinOff(symbol, ticker, share_of_original_cost, d,
                              Len(spin_offs[d]) + 1),
         amount |-> round_decimal_2(amount)]

\* SPIN_OFF: _add_acquisition with the apportioned cost; no cash moves.
SpinOffTx(d, s, q) ==
    LET r == _handle_spin_off(d, s, q)
        ticker == get_spin_off_source(s)
        \* reading self.portfolio[ticker] inserts the key
        touched == SetPosition(hmrc_portfolio, ticker, PositionOf(hmrc_portfolio, ticker))
    IN  /\ CanRead(d)
        /\ spin_offs' = [spin_offs EXCEPT ![d] = Append(@, r.spin_off)]
        /\ hmrc_portfolio' =
               SetPosition(touched, s,
                   PositionAdd(PositionOf(touched, s), Position(q, r.amount)))
        /\ acquisition_list' = add_to_list(acquisition_list, d, s, q, r.amount, Zero)
        /\ EndOfTransaction(d, SharePair, balance[SharePair])
        /\ UNCHANGED <<tx_limit, balance_check, disposal_list, second_vars>>

\* A bug: the quantity sold is not compared with the quantity held.
more_than_available_unchecked(available, quantity) == FALSE

\* self.portfolio[symbol].quantity < quantity
more_than_available(available, quantity) == available < quantity

\* SELL (and CASH_MERGER): _add_disposal.
Sell(d, s, q) ==
    LET price == Dec(SellPrice(d))
        fees == Dec(Commission)
        amount == DSub(DMul(Dec(q), price), fees)
        calculated_amount == DSub(DMul(Dec(q), price), fees)
        after == PositionSub(PositionOf(hmrc_portfolio, s), Position(q, amount))
    IN  /\ CanRead(d)
        /\ IF s \notin DOMAIN hmrc_portfolio
           THEN /\ Raise("InvalidTransactionError", 228)
                /\ UNCHANGED <<disposal_list, hmrc_portfolio>>
           ELSE IF more_than_available(hmrc_portfolio[s].quantity, q)
           THEN /\ Raise("InvalidTransactionError", 234)
                /\ UNCHANGED <<disposal_list, hmrc_portfolio>>
           ELSE /\ hmrc_portfolio' =
                       IF after.quantity = 0
                       THEN [x \in DOMAIN hmrc_portfolio \ {s} |-> hmrc_portfolio[x]]
                       ELSE SetPosition(hmrc_portfolio, s, after)
                /\ IF ~_approx_equal(amount, calculated_amount)
                   THEN /\ Raise("CalculatedAmountDiscrepancyError", 252)
                        /\ UNCHANGED disposal_list
                   ELSE /\ disposal_list' =
                               add_to_list(disposal_list, d, s, q, amount, fees)
                        /\ EndOfTransaction(d, SharePair, DAdd(balance[SharePair], amount))
        /\ UNCHANGED <<tx_limit, balance_check, acquisition_list, spin_offs, second_vars>>

\* A bug: the fee keeps the sign of the amount the broker charged.
gbp_fees_signed(amount) == amount

\* transaction.fees = -amount, in pounds
gbp_fees(amount) == DNeg(amount)

\* FEE: a zero-quantity acquisition that carries the fee.
Fee(d, s) ==
    LET amount == Dec(-FeeAmount)
        fees == gbp_fees(amount)
    IN  /\ CanRead(d)
        /\ acquisition_list' = add_to_list(acquisition_list, d, s, 0, fees, fees)
        /\ EndOfTransaction(d, SharePair, DAdd(balance[SharePair], amount))
        /\ UNCHANGED <<tx_limit, balance_check, disposal_list, hmrc_portfolio,
                       spin_offs, second_vars>>

\* STOCK_ACTIVITY and STOCK_SPLIT: _add_acquisition with the value of the
\* shares at the quoted price, or with no cost; no cash moves.
StockAcquisition(action, d, s, q) ==
    LET price == Dec(BuyPrice(d))
        amount == IF action = "STOCK_SPLIT" THEN Zero
                  ELSE round_decimal_2(DMul(Dec(q), price))
    IN  /\ CanRead(d)
        /\ hmrc_portfolio' =
               SetPosition(hmrc_portfolio, s,
                   PositionAdd(PositionOf(hmrc_portfolio, s), Position(q, amount)))
        /\ acquisition_list' = add_to_list(acquisition_list, d, s, q, amount, Zero)
        /\ EndOfTransaction(d, SharePair, balance[SharePair])
        /\ UNCHANGED <<tx_limit, balance_check, disposal_list, spin_offs, second_vars>>

\* The kinds that only move cash: new_balance += amount.
CashOnly(d, pair, amount) ==
    /\ CanRead(d)
    /\ EndOfTransaction(d, pair, DAdd(balance[pair], Dec(amount)))
    /\ UNCHANGED <<tx_limit, balance_check, acquisition_list, disposal_list,
                   hmrc_portfolio, spin_offs, second_vars>>

\* REINVEST_DIVIDENDS: "WARNING: Ignoring unsupported action".
Ignored(d) ==
    /\ CanRead(d)
    /\ EndOfTransaction(d, SharePair, balance[SharePair])
    /\ UNCHANGED <<tx_limit, balance_check, acquisition_list, disposal_list,
                   hmrc_portfolio, spin_offs, second_vars>>

\* A bug: a kind the chain does not name is skipped like REINVEST_DIVIDENDS.
NotProcessedSkipped(d) ==
    /\ CanRead(d)
    /\ EndOfTransaction(d, SharePair, balance[SharePair])
    /\ UNCHANGED <<tx_limit, balance_check, acquisition_list, disposal_list,
                   hmrc_portfolio, spin_offs, second_vars>>

\* Any other kind: "Action not processed".
NotProcessed(d) ==
    /\ CanRead(d)
    /\ Raise("InvalidTransactionError", 336)
    /\ UNCHANGED <<tx_limit, balance_check, acquisition_list, disposal_list,
                   hmrc_portfolio, spin_offs, second_vars>>

\* The if / elif chain of the loop over the transactions: what one
\* transaction of the kind action does.
Transaction(action, pair, d, s, q, amount) ==
    IF action = "TRANSFER" THEN CashOnly(d, pair, amount)
    ELSE IF action \in {"BUY", "REINVEST_SHARES"} THEN Buy(d, s, q)
    ELSE IF action \in {"SELL", "CASH_MERGER"} THEN Sell(d, s, q)
    ELSE IF action = "FEE" THEN Fee(d, s)
    ELSE IF action \in {"STOCK_ACTIVITY", "SPIN_OFF", "STOCK_SPLIT"}
         THEN IF action = "SPIN_OFF" THEN SpinOffTx(d, s, q)
              ELSE StockAcquisition(action, d, s, q)
    ELSE IF action \in {"DIVIDEND", "CAPITAL_GAIN"} THEN CashOnly(d, pair, amount)
    ELSE IF action \in {"TAX", "ADJUSTMENT"} THEN CashOnly(d, pair, amount)
    ELSE IF action = "INTEREST" THEN CashOnly(d, pair, amount)
    ELSE IF action = "WIRE_FUNDS_RECEIVED" THEN CashOnly(d, pair, amount)
    ELSE IF action = "REINVEST_DIVIDENDS" THEN Ignored(d)
    ELSE NotProcessed(d)

\* The kinds of transaction read through the chain above; BUY, SELL, SPIN_OFF
\* and FEE transactions are read by Buy, Sell, SpinOffTx and Fee.
OtherActions == ActionTypes \ {"BUY", "SELL", "SPIN_OFF", "FEE"}

\* The list is exhausted: "First pass completed".
FirstPassCompleted ==
    /\ pc = "first"
    /\ pc' = "second"
    /\ UNCHANGED <<error, raised_at, first_vars, spin_offs, second_vars>>

(***************************************************************************)
(* Second pass: CapitalGainsCalculator.calculate_capital_gain.             *)
(***************************************************************************)
Ok(r) == r.error = "none"

\* A bug: the pool entry is appended for every acquisition.
pool_entry_always(acquisition, bnb_acquisition) == TRUE

\* The condition under which the acquisition appends a SECTION_104 entry.
pool_entry_needed(acquisition, bnb_acquisition) ==
    \/ acquisition.quantity - bnb_acquisition.quantity > 0
    \/ bnb_acquisition.quantity = 0

\* _process_acquisition: the new pool of the symbol and the entries, or the
\* assertion that failed.
_process_acquisition(symbol, date) ==
    LET acquisition == Lookup(acquisition_list, date, symbol)
        position == portfolio[symbol]
        claimed == acquisition.quantity > 0 /\ has_key(bnb_list, date, symbol)
        bnb_acquisition == IF claimed THEN Lookup(bnb_list, date, symbol) ELSE NoData
        acquisition_price == DDiv(acquisition.amount, Dec(acquisition.quantity))
        modified_amount ==
            IF claimed
            THEN DAdd(DSub(acquisition.amount,
                           DMul(Dec(bnb_acquisition.quantity), acquisition_price)),
                      bnb_acquisition.amount)
            ELSE acquisition.amount
        bed_and_breakfast_fees ==
            IF claimed
            THEN DDiv(DMul(acquisition.fees, Dec(bnb_acquisition.quantity)),
                      Dec(acquisition.quantity))
            ELSE Zero
        bnb_entry ==
            CalculationEntry("BED_AND_BREAKFAST", bnb_acquisition.quantity,
                DNeg(bnb_acquisition.amount), bed_and_breakfast_fees,
                position.quantity + bnb_acquisition.quantity,
                DAdd(position.amount, bnb_acquisition.amount),
                Zero, acquisition.amount, NoDate, NoSpinOff)
        to_pool == pool_entry_needed(acquisition, bnb_acquisition)
        dests == {i \in 1..Len(spin_offs[date]) : spin_offs[date][i].dest = symbol}
        spin_off ==
            IF dests = {} THEN NoSpinOff
            ELSE spin_offs[date][CHOOSE i \in dests : \A j \in dests : i <= j]
        pool_entry ==
            CalculationEntry("SECTION_104",
                acquisition.quantity - bnb_acquisition.quantity,
                DNeg(DSub(modified_amount, bnb_acquisition.amount)),
                DSub(acquisition.fees, bed_and_breakfast_fees),
                position.quantity + acquisition.quantity,
                DAdd(position.amount, modified_amount),
                Zero, acquisition.amount, NoDate, spin_off)
        failed ==
            IF ~(acquisition.quantity >= 0) THEN 73
            ELSE IF ~DLe(Zero, acquisition.amount) THEN 75
            ELSE IF claimed /\ ~(bnb_acquisition.quantity <= acquisition.quantity)
                 THEN 83
            ELSE IF claimed /\ ~DLt(Zero, modified_amount) THEN 86
            ELSE IF claimed /\ ~post_init_ok(bnb_entry) THEN 91
            ELSE IF to_pool /\ ~post_init_ok(pool_entry) THEN 118
            ELSE 0
    IN  [error |-> IF failed = 0 THEN "none" ELSE "AssertionError",
         line |-> failed,
         position |-> PositionAdd(position,
                                  Position(acquisition.quantity, modified_amount)),
         entries |-> (IF claimed THEN <<bnb_entry>> ELSE <<>>)
                     \o (IF to_pool THEN <<pool_entry>> ELSE <<>>)]

\* calculation_log[date][label] = entries
LogEntries(log, date, label, symbol, entries) ==
    LET k == <<date, label, symbol>>
    IN  [x \in DOMAIN log \cup {k} |-> IF x = k THEN entries ELSE log[x]]

\* The exception leaves calculate_capital_gain: the run is over.
Abort(name, line) ==
    /\ pc' = "failed"
    /\ error' = name
    /\ raised_at' = line
    /\ UNCHANGED <<first_vars, spin_offs, second_vars>>

\* A bug: every date counts as a date of the tax year.
in_tax_year_always(date) == TRUE

\* date_index >= self.tax_year_start_date
in_tax_year(date) == date >= TaxYearStart

\* What the loop over the acquisitions does with r, the outcome of
\* _process_acquisition(symbol, date_index).
acquisition_processed(symbol, r) ==
    IF ~Ok(r) THEN Abort(r.error, r.line)
    ELSE /\ portfolio' = [portfolio EXCEPT ![symbol] = r.position]
         /\ todo_acq' = Tail(todo_acq)
         /\ calculation_log' =
                IF in_tax_year(date_index)
                THEN LogEntries(calculation_log, date_index, "buy", symbol,
                                r.entries)
                ELSE calculation_log
         /\ ret' = [NoReturn EXCEPT !.call = "acquisition",
                       !.symbol = symbol, !.date = date_index,
                       !.entries = r.entries,
                       !.opening = opening[symbol],
                       !.before = portfolio[symbol],
                       !.after = r.position]
         /\ UNCHANGED <<pc, error, raised_at, first_vars, spin_offs, date_index,
                        todo_disp, bnb_list, totals, opening, applied_log, cost_log,
                        report>>

\* One iteration of the loop over the acquisitions of date_index.
ProcessAcquisition ==
    /\ pc = "second"
    /\ todo_acq # <<>>
    /\ acquisition_processed(Head(todo_acq),
                             _process_acquisition(Head(todo_acq), date_index))

\* The days of a set, ascending.
RECURSIVE Ascending(_)
Ascending(days) ==
    IF days = {} THEN <<>>
    ELSE LET m == CHOOSE x \in days : \A y \in days : x <= y
         IN  <<m>> \o Ascending(days \ {m})

RECURSIVE Flatten(_, _)
Flatten(days, lists) ==
    IF days = <<>> THEN <<>>
    ELSE lists[Head(days)] \o Flatten(Tail(days), lists)

\* The records the loop over hmrc_transactions.spin_offs.items() visits at a
\* disposal dated date: every record of every list dated <= date.  (The keys
\* that hold records were inserted by the first pass, in date order.)
VisitedSpinOffsOf(records, date) ==
    Flatten(Ascending({d \in DOMAIN records : d <= date}), records)

VisitedSpinOffs(date) == VisitedSpinOffsOf(spin_offs, date)

\* new_amount = amount * spin_off.cost_proportion
spin_off_new_amount(amount, cost_proportion) == DMul(amount, cost_proportion)

\* The body of the loop, for each visited record in turn: the source's pool
\* cost is scaled and spin_off_entry is overwritten.
RECURSIVE apply_spin_offs(_, _)
apply_spin_offs(records, st) ==
    IF records = <<>> THEN st
    ELSE LET spin_off == Head(records)
             amount == st.portfolio[spin_off.source].amount
             quantity == st.portfolio[spin_off.source].quantity
             new_amount == spin_off_new_amount(amount, spin_off.cost_proportion)
             entry == CalculationEntry("SPIN_OFF", quantity, DNeg(amount), Zero,
                          quantity, new_amount, None, new_amount, NoDate, spin_off)
         IN  apply_spin_offs(Tail(records),
                 [portfolio |-> [st.portfolio EXCEPT
                                    ![spin_off.source].amount = new_amount],
                  spin_off_entry |-> <<entry>>])

\* hmrc_transactions.spin_offs[date] = spin_offs[1:], once per record of the
\* list: every visited list ends as the list it was without its first record.
spin_offs_left(list) == Tail(list)

remaining_spin_offs_of(records, date) ==
    [d \in DOMAIN records |->
        IF d <= date /\ records[d] # <<>>
        THEN spin_offs_left(records[d]) ELSE records[d]]

remaining_spin_offs(date) == remaining_spin_offs_of(spin_offs, date)

\* A bug: the matched quantity is not taken off the quantity still to match.
remaining_quantity_kept(disposal_quantity, available_quantity) ==
    disposal_quantity

\* disposal_quantity -= available_quantity
remaining_quantity(disposal_quantity, available_quantity) ==
    disposal_quantity - available_quantity

\* A bug: the matched proceeds are not taken off the proceeds still to match.
remaining_proceeds_kept(proceeds_amount, available_quantity, disposal_price) ==
    proceeds_amount

\* proceeds_amount -= available_quantity * disposal_price
remaining_proceeds(proceeds_amount, available_quantity, disposal_price) ==
    DSub(proceeds_amount, DMul(Dec(available_quantity), disposal_price))

\* A bug: the operands of the subtraction are swapped.
pool_quantity_swapped(current_quantity, disposal_quantity) ==
    disposal_quantity - current_quantity

\* current_quantity -= disposal_quantity, of the Section 104 rule
pool_quantity_after_section_104(current_quantity, disposal_quantity) ==
    current_quantity - disposal_quantity

\* A bug: the same-day quantity is not capped by the disposal's quantity.
same_day_available_uncapped(disposal_quantity, same_day_acquisition) ==
    same_day_acquisition.quantity

\* available_quantity of the same-day rule
same_day_available(disposal_quantity, same_day_acquisition) ==
    Min(disposal_quantity, same_day_acquisition.quantity)

\* A bug: the cost of the shares matched the same day stays in the pool.
pool_cost_after_same_day_kept(current_amount, available_quantity, acquisition_price) ==
    current_amount

\* current_amount -= available_quantity * acquisition_price
pool_cost_after_same_day(current_amount, available_quantity, acquisition_price) ==
    DSub(current_amount, DMul(Dec(available_quantity), acquisition_price))

\* The same-day rule on the running figures st of a disposal.
same_day_rule(st, symbol, date, disposal, disposal_price) ==
    IF ~has_key(acquisition_list, date, symbol) THEN st
    ELSE
    LET same_day_acquisition == Lookup(acquisition_list, date, symbol)
        available_quantity == same_day_available(st.disposal_quantity,
                                                 same_day_acquisition)
    IN  IF ~(available_quantity > 0) THEN st
        ELSE
        LET acquisition_price == DDiv(same_day_acquisition.amount,
                                      Dec(same_day_acquisition.quantity))
            same_day_proceeds == DMul(Dec(available_quantity), disposal_price)
            same_day_allowable_cost == DMul(Dec(available_quantity), acquisition_price)
            same_day_gain == DSub(same_day_proceeds, same_day_allowable_cost)
            current_quantity == st.current_quantity - available_quantity
            \* These shares shouldn't be added to Section 104 holding
            current_amount == pool_cost_after_same_day(st.current_amount,
                                  available_quantity, acquisition_price)
            fees == DDiv(DMul(disposal.fees, Dec(available_quantity)),
                         Dec(disposal.quantity))
            entry == CalculationEntry("SAME_DAY", available_quantity,
                         same_day_proceeds, fees, current_quantity, current_amount,
                         same_day_gain, same_day_allowable_cost, NoDate, NoSpinOff)
            failed ==
                IF current_quantity = 0 /\ ~rounds_to_zero(current_amount) THEN 215
                ELSE IF ~post_init_ok(entry) THEN 220
                ELSE 0
        IN  [st EXCEPT
                !.error = IF failed = 0 THEN "none" ELSE "AssertionError",
                !.line = failed,
                !.chargeable_gain = DAdd(@, same_day_gain),
                !.disposal_quantity = remaining_quantity(@, available_quantity),
                !.proceeds_amount = remaining_proceeds(@, available_quantity,
                                                       disposal_price),
                !.current_quantity = current_quantity,
                !.current_amount = current_amount,
                !.entries = Append(@, entry)]

\* A bug: the quantity already claimed is not taken off the acquisition.
unclaimed_quantity_ignoring_claims(acquisition, same_day_disposal, bnb_acquisition) ==
    acquisition.quantity - same_day_disposal.quantity

\* acquisition.quantity - same_day_disposal.quantity - bnb_acquisition.quantity
unclaimed_quantity(acquisition, same_day_disposal, bnb_acquisition) ==
    acquisition.quantity - same_day_disposal.quantity
        - bnb_acquisition.quantity

\* available_quantity of the bed-and-breakfast rule
bed_and_breakfast_available(disposal_quantity, acquisition, same_day_disposal, bnb_acquisition) ==
    Min(disposal_quantity,
        unclaimed_quantity(acquisition, same_day_disposal, bnb_acquisition))

\* A bug: the matched shares stay in the pool until the later acquisition.
pool_quantity_after_bed_and_breakfast_kept(current_quantity, available_quantity) ==
    current_quantity

\* current_quantity -= available_quantity, of the bed-and-breakfast rule
pool_quantity_after_bed_and_breakfast(current_quantity, available_quantity) ==
    current_quantity - available_quantity

\* One iteration of the loop over the BED_AND_BREAKFAST_DAYS days after date.
bed_and_breakfast_day(st, symbol, date, search_index, disposal, disposal_price) ==
    IF ~Ok(st) \/ ~has_key(acquisition_list, search_index, symbol) THEN st
    ELSE
    LET acquisition == Lookup(acquisition_list, search_index, symbol)
        bnb_acquisition ==
            IF has_key(st.bnb_list, search_index, symbol)
            THEN Lookup(st.bnb_list, search_index, symbol) ELSE NoData
        same_day_disposal ==
            IF has_key(disposal_list, search_index, symbol)
            THEN Lookup(disposal_list, search_index, symbol) ELSE NoData
    IN  IF ~(bnb_acquisition.quantity <= acquisition.quantity)
        THEN [st EXCEPT !.error = "AssertionError", !.line = 246]
        ELSE IF same_day_disposal.quantity > acquisition.quantity THEN st
        ELSE IF unclaimed_quantity(acquisition, same_day_disposal,
                                   bnb_acquisition) = 0 THEN st
        ELSE IF st.current_quantity = 0
        THEN \* current_price = current_amount / current_quantity
             [st EXCEPT !.error = IF st.current_amount = Zero
                                  THEN "InvalidOperation" ELSE "DivisionByZero",
                        !.line = 300]
        ELSE
        LET available_quantity ==
                bed_and_breakfast_available(st.disposal_quantity, acquisition,
                                            same_day_disposal, bnb_acquisition)
            acquisition_price == DDiv(acquisition.amount, Dec(acquisition.quantity))
            bed_and_breakfast_proceeds == DMul(Dec(available_quantity), disposal_price)
            bed_and_breakfast_allowable_cost ==
                DMul(Dec(available_quantity), acquisition_price)
            bed_and_breakfast_gain ==
                DSub(bed_and_breakfast_proceeds, bed_and_breakfast_allowable_cost)
            current_price == DDiv(st.current_amount, Dec(st.current_quantity))
            amount_delta == DMul(Dec(available_quantity), current_price)
            current_quantity ==
                pool_quantity_after_bed_and_breakfast(st.current_quantity,
                                                      available_quantity)
            current_amount == DSub(st.current_amount, amount_delta)
            fees == DDiv(DMul(disposal.fees, Dec(available_quantity)),
                         Dec(disposal.quantity))
            entry == CalculationEntry("BED_AND_BREAKFAST", available_quantity,
                         bed_and_breakfast_proceeds, fees, current_quantity,
                         current_amount, bed_and_breakfast_gain,
                         bed_and_breakfast_allowable_cost, search_index, NoSpinOff)
            failed ==
                IF current_quantity = 0 /\ ~rounds_to_zero(current_amount) THEN 305
                ELSE IF ~post_init_ok(entry) THEN 320
                ELSE 0
        IN  [st EXCEPT
                !.error = IF failed = 0 THEN "none" ELSE "AssertionError",
                !.line = failed,
                !.chargeable_gain = DAdd(@, bed_and_breakfast_gain),
                !.disposal_quantity = remaining_quantity(@, available_quantity),
                !.proceeds_amount = remaining_proceeds(@, available_quantity,
                                                       disposal_price),
                !.current_quantity = current_quantity,
                !.current_amount = current_amount,
                !.bnb_list = add_to_list(@, search_index, symbol,
                                         available_quantity, amount_delta, Zero),
                !.entries = Append(@, entry)]

\* A bug: the search starts two days after the disposal.
search_index_late(date, i) == date + i + 2

\* search_index = date_index + datetime.timedelta(days=i + 1)
search_index_of(date, i) == date + i + 1

\* for i in range(BED_AND_BREAKFAST_DAYS), left when an iteration raises
RECURSIVE bed_and_breakfast_loop(_, _, _, _, _, _)
bed_and_breakfast_loop(i, st, symbol, date, disposal, disposal_price) ==
    IF i >= BED_AND_BREAKFAST_DAYS \/ ~Ok(st) THEN st
    ELSE bed_and_breakfast_loop(i + 1,
             bed_and_breakfast_day(st, symbol, date, search_index_of(date, i),
                                   disposal, disposal_price),
             symbol, date, disposal, disposal_price)

bed_and_breakfast_rule(st, symbol, date, disposal, disposal_price) ==
    IF Ok(st) /\ st.disposal_quantity > 0
    THEN bed_and_breakfast_loop(0, st, symbol, date, disposal, disposal_price)
    ELSE st

\* A bug: the average cost of one share instead of the cost of the quantity.
section_104_average_cost(current_amount, disposal_quantity, current_quantity) ==
    DDiv(current_amount, Dec(current_quantity))

\* allowable_cost = current_amount * disposal_quantity / current_quantity
section_104_allowable_cost(current_amount, disposal_quantity, current_quantity) ==
    DDiv(DMul(current_amount, Dec(disposal_quantity)), Dec(current_quantity))

\* The Section 104 rule on what the first two rules left.
section_104_rule(st, disposal) ==
    IF ~(Ok(st) /\ st.disposal_quantity > 0) THEN st
    ELSE IF st.current_quantity = 0
    THEN [st EXCEPT !.error = IF st.current_amount = Zero
                              THEN "InvalidOperation" ELSE "DivisionByZero",
                    !.line = 333]
    ELSE
    LET allowable_cost ==
            section_104_allowable_cost(st.current_amount, st.disposal_quantity,
                                       st.current_quantity)
        current_quantity ==
            pool_quantity_after_section_104(st.current_quantity, st.disposal_quantity)
        current_amount == DSub(st.current_amount, allowable_cost)
        fees == DDiv(DMul(disposal.fees, Dec(st.disposal_quantity)),
                     Dec(disposal.quantity))
        entry == CalculationEntry("SECTION_104", st.disposal_quantity,
                     st.proceeds_amount, fees, current_quantity, current_amount,
                     DSub(st.proceeds_amount, allowable_cost), allowable_cost,
                     NoDate, NoSpinOff)
        failed ==
            IF current_quantity = 0 /\ ~rounds_to_zero(current_amount) THEN 346
            ELSE IF ~post_init_ok(entry) THEN 351
            ELSE 0
    IN  [st EXCEPT
            !.error = IF failed = 0 THEN "none" ELSE "AssertionError",
            !.line = failed,
            !.chargeable_gain = DAdd(@, DSub(st.proceeds_amount, allowable_cost)),
            !.current_quantity = current_quantity,
            !.current_amount = current_amount,
            !.entries = Append(@, entry),
            !.disposal_quantity = 0]

\* A bug: the pool cost is read before the spin-off loop.
pool_cost_before_spin_offs(before, after_spin_offs, symbol) ==
    before[symbol].amount

\* current_amount = self.portfolio[symbol].amount, read after the spin-off loop
pool_cost_for_matching(before, after_spin_offs, symbol) ==
    after_spin_offs[symbol].amount

\* The end of _process_disposal, on the figures st the three rules left: the
\* last assertion, the pool written back and the values returned.
disposal_matched(symbol, date, visited, spun, current_amount, st, left) ==
    \* assert round_decimal(disposal_quantity, 23) == 0
    LET left_over == Ok(st) /\ st.disposal_quantity # 0
    IN  [error |-> IF left_over THEN "AssertionError" ELSE st.error,
         line |-> IF left_over THEN 364 ELSE st.line,
         current_amount |-> current_amount,
         portfolio |-> [spun.portfolio EXCEPT ![symbol] =
                           Position(st.current_quantity, st.current_amount)],
         bnb_list |-> st.bnb_list,
         spin_offs |-> left,
         chargeable_gain |-> round_decimal_2(st.chargeable_gain),
         entries |-> st.entries,
         spin_off_entry |-> spun.spin_off_entry,
         applied |-> visited]

\* _process_disposal on a calculator whose pools are pools and whose claims
\* are claims, with the spin-off records records still queued: the spin-off
\* loop, then the three rules in turn.
process_disposal_on(pools, claims, records, symbol, date) ==
    LET disposal == Lookup(disposal_list, date, symbol)
        disposal_price == DDiv(disposal.amount, Dec(disposal.quantity))
        visited == VisitedSpinOffsOf(records, date)
        spun == apply_spin_offs(visited,
                    [portfolio |-> pools, spin_off_entry |-> <<>>])
        start == [error |-> IF disposal.quantity <= pools[symbol].quantity
                            THEN "none" ELSE "AssertionError",
                  line |-> IF disposal.quantity <= pools[symbol].quantity
                           THEN 0 ELSE 183,
                  disposal_quantity |-> disposal.quantity,
                  proceeds_amount |-> disposal.amount,
                  current_quantity |-> pools[symbol].quantity,
                  current_amount |->
                      pool_cost_for_matching(pools, spun.portfolio, symbol),
                  chargeable_gain |-> Zero,
                  entries |-> <<>>,
                  bnb_list |-> claims]
        st1 == IF Ok(start)
               THEN same_day_rule(start, symbol, date, disposal, disposal_price)
               ELSE start
        st2 == bed_and_breakfast_rule(st1, symbol, date, disposal, disposal_price)
    IN  disposal_matched(symbol, date, visited, spun, start.current_amount,
                         section_104_rule(st2, disposal),
                         remaining_spin_offs_of(records, date))

\* _process_disposal(symbol, date_index, hmrc_transactions) on the state.
_process_disposal(symbol, date) ==
    process_disposal_on(portfolio, bnb_list, spin_offs, symbol, date)

RECURSIVE SumQuantity(_)
SumQuantity(entries) ==
    IF entries = <<>> THEN 0
    ELSE Head(entries).quantity + SumQuantity(Tail(entries))

RECURSIVE SumAmount(_)
SumAmount(entries) ==
    IF entries = <<>> THEN Zero
    ELSE DAdd(Head(entries).amount, SumAmount(Tail(entries)))

RECURSIVE SumAllowableCost(_)
SumAllowableCost(entries) ==
    IF entries = <<>> THEN Zero
    ELSE DAdd(Head(entries).allowable_cost, SumAllowableCost(Tail(entries)))

RECURSIVE SumGain(_)
SumGain(entries) ==
    IF entries = <<>> THEN Zero
    ELSE DAdd(Head(entries).gain, SumGain(Tail(entries)))

\* The three assertions of calculate_capital_gain on an in-year disposal:
\* the line of the first one that fails, or 0.  (The two sides of the second
\* are compared after round_decimal(x, 10).)
reconciled(disposal, r) ==
    IF disposal.quantity # SumQuantity(r.entries) THEN 437
    ELSE IF ~rounds_to_zero(DSub(disposal.amount, SumAmount(r.entries))) THEN 438
    ELSE IF r.chargeable_gain # round_decimal_2(SumGain(r.entries)) THEN 443
    ELSE 0

\* A bug: the gain of every disposal, a loss too, goes to capital_gain.
add_to_totals_as_gain(t, disposal, transaction_capital_gain) ==
    [disposal_count |-> t.disposal_count + 1,
     disposal_proceeds |-> DAdd(t.disposal_proceeds, disposal.amount),
     allowable_costs |-> DAdd(t.allowable_costs,
                              DSub(disposal.amount, transaction_capital_gain)),
     capital_gain |-> DAdd(t.capital_gain, transaction_capital_gain),
     capital_loss |-> t.capital_loss]

\* The totals after an in-year disposal.
add_to_totals(t, disposal, transaction_capital_gain) ==
    [disposal_count |-> t.disposal_count + 1,
     disposal_proceeds |-> DAdd(t.disposal_proceeds, disposal.amount),
     allowable_costs |-> DAdd(t.allowable_costs,
                              DSub(disposal.amount, transaction_capital_gain)),
     capital_gain |-> IF DLt(Zero, transaction_capital_gain)
                      THEN DAdd(t.capital_gain, transaction_capital_gain)
                      ELSE t.capital_gain,
     capital_loss |-> IF DLt(Zero, transaction_capital_gain)
                      THEN t.capital_loss
                      ELSE DAdd(t.capital_loss, transaction_capital_gain)]

\* What the loop over the disposals does with r, the outcome of
\* _process_disposal(symbol, date_index).
disposal_processed(symbol, disposal, r) ==
       LET in_year == in_tax_year(date_index)
           sold == LogEntries(calculation_log, date_index, "sell", symbol, r.entries)
       IN  IF ~Ok(r) THEN Abort(r.error, r.line)
           ELSE IF in_year /\ reconciled(disposal, r) # 0
                THEN Abort("AssertionError", reconciled(disposal, r))
           ELSE /\ portfolio' = r.portfolio
                /\ bnb_list' = r.bnb_list
                /\ spin_offs' = r.spin_offs
                /\ todo_disp' = Tail(todo_disp)
                /\ totals' = IF in_year
                             THEN add_to_totals(totals, disposal, r.chargeable_gain)
                             ELSE totals
                /\ calculation_log' =
                       IF ~in_year THEN calculation_log
                       ELSE IF r.spin_off_entry = <<>> THEN sold
                       ELSE LogEntries(sold, r.spin_off_entry[1].spin_off.date,
                                "spin-off", r.spin_off_entry[1].spin_off.source,
                                r.spin_off_entry)
                /\ ret' = [call |-> "disposal", symbol |-> symbol,
                           date |-> date_index,
                           chargeable_gain |-> r.chargeable_gain,
                           entries |-> r.entries,
                           spin_off_entry |-> r.spin_off_entry,
                           applied |-> r.applied,
                           opening |-> opening[symbol],
                           before |-> portfolio[symbol],
                           after |-> r.portfolio[symbol],
                           current_amount |-> r.current_amount]
                /\ applied_log' = applied_log \o r.applied
                /\ cost_log' = [cost_log EXCEPT
                                  ![symbol] = DAdd(@, SumAllowableCost(r.entries))]
                /\ UNCHANGED <<pc, error, raised_at, first_vars, date_index, todo_acq,
                               opening, report>>

\* One iteration of the loop over the disposals of date_index.
ProcessDisposal ==
    /\ pc = "second"
    /\ todo_acq = <<>>
    /\ todo_disp # <<>>
    /\ disposal_processed(Head(todo_disp),
                          Lookup(disposal_list, date_index, Head(todo_disp)),
                          _process_disposal(Head(todo_disp), date_index))

\* The dates of the loop that hold an acquisition or a disposal and are still
\* to come.  (A date with neither is an iteration that changes nothing.)
LoopDays ==
    {d \in INTERNAL_START_DATE..TaxYearEnd :
        /\ d > date_index
        /\ \E s \in Symbols : \/ has_key(acquisition_list, d, s)
                              \/ has_key(disposal_list, d, s)}

NextDate ==
    /\ pc = "second"
    /\ todo_acq = <<>>
    /\ todo_disp = <<>>
    /\ LoopDays # {}
    /\ LET d == CHOOSE x \in LoopDays : \A y \in LoopDays : x <= y
       IN  /\ date_index' = d
           /\ todo_acq' = SymbolsOn(acquisition_list.order, d)
           /\ todo_disp' = SymbolsOn(disposal_list.order, d)
    /\ opening' = portfolio
    /\ UNCHANGED <<pc, error, raised_at, first_vars, spin_offs, portfolio, bnb_list,
                   calculation_log, totals, ret, applied_log, cost_log, report>>

\* A bug: a tax year without an allowance gets an allowance of 0.
allowance_defaulted(allowance) ==
    IF allowance # NoAllowance THEN Dec(allowance) ELSE Zero

\* Decimal(allowance) if allowance is not None else None
capital_gain_allowance(allowance) ==
    IF allowance # NoAllowance THEN Dec(allowance) ELSE None

\* CapitalGainsReport.__str__: the line about the taxable gain.
taxable_gain_line(r) ==
    IF r.capital_gain_allowance # None THEN "Taxable capital gain"
    ELSE "WARNING: Missing allowance for this tax year"

\* "Second pass completed" and the report returned, for the tax year tax_year.
SecondPassCompleted(tax_year) ==
    /\ pc = "second"
    /\ todo_acq = <<>>
    /\ todo_disp = <<>>
    /\ LoopDays = {}
    /\ pc' = "done"
    /\ report' =
           [returned |-> TRUE,
            tax_year |-> tax_year,
            disposal_count |-> totals.disposal_count,
            disposal_proceeds |-> round_decimal_2(totals.disposal_proceeds),
            allowable_costs |-> round_decimal_2(totals.allowable_costs),
            capital_gain |-> round_decimal_2(totals.capital_gain),
            capital_loss |-> round_decimal_2(totals.capital_loss),
            capital_gain_allowance |->
                capital_gain_allowance(dict_get(CAPITAL_GAIN_ALLOWANCES, tax_year))]
    /\ UNCHANGED <<error, raised_at, first_vars, spin_offs, date_index, todo_acq,
                   todo_disp, portfolio, bnb_list, calculation_log, totals, ret,
                   opening, applied_log, cost_log>>

Next ==
    \/ \E d \in TransactionDays, s \in BuySymbols, q \in 1..MaxQty : Buy(d, s, q)
    \/ \E d \in TradingDays, s \in Symbols, q \in 1..MaxQty : Sell(d, s, q)
    \/ \E d \in SpinOffDays, s \in SpinOffSymbols : SpinOffTx(d, s, SpinOffQty)
    \/ \E d \in FeeDays, s \in FeeSymbols : Fee(d, s)
    \/ FirstPassCompleted
    \/ NextDate
    \/ ProcessAcquisition
    \/ ProcessDisposal
    \/ \E tax_year \in TaxYears : SecondPassCompleted(tax_year)
    \/ \E action \in OtherActions, pair \in Pairs, d \in OtherDays, s \in BuySymbols,
          amount \in CashAmounts : Transaction(action, pair, d, s, GrantQty, amount)

Spec == Init /\ [][Next]_vars

(***************************************************************************)
(* Properties of the second pass.                                          *)
(***************************************************************************)
\* The last call was a disposal; the aggregated disposal it processed and the
\* aggregated acquisition of the same date and symbol (none: quantity 0).
Disposed == ret.call = "disposal"
DisposalOf(r) == Lookup(disposal_list, r.date, r.symbol)
SameDateAcquisitionOf(r) ==
    IF has_key(acquisition_list, r.date, r.symbol)
    THEN Lookup(acquisition_list, r.date, r.symbol) ELSE NoData

\* The loop of calculate_capital_gain is about to process a disposal / an
\* acquisition: the only step such a state can take.
AtDisposal == pc = "second" /\ todo_acq = <<>> /\ todo_disp # <<>>
AtAcquisition == pc = "second" /\ todo_acq # <<>>

Indexes(entries, rule_type) ==
    {i \in 1..Len(entries) : entries[i].rule_type = rule_type}

RECURSIVE TierQuantity(_, _)
TierQuantity(entries, rule_type) ==
    IF entries = <<>> THEN 0
    ELSE (IF Head(entries).rule_type = rule_type THEN Head(entries).quantity ELSE 0)
         + TierQuantity(Tail(entries), rule_type)

\* The pool the i-th tier entry of a disposal found.
PoolAt(r, i) ==
    IF i = 1 THEN Position(r.before.quantity, r.current_amount)
    ELSE Position(r.entries[i - 1].new_quantity, r.entries[i - 1].new_pool_cost)

\* C1: the quantities of the tier entries (SAME_DAY, BED_AND_BREAKFAST,
\* SECTION_104) of every processed disposal sum exactly to the disposal's
\* aggregated quantity, in the tax year or before it, and the assertion of
\* calculate_capital_gain that compares the two never fails.
C1_TierQuantitiesSum ==
    /\ raised_at # 437
    /\ Disposed =>
        /\ \A i \in 1..Len(ret.entries) :
               ret.entries[i].rule_type \in
                   {"SAME_DAY", "BED_AND_BREAKFAST", "SECTION_104"}
        /\ SumQuantity(ret.entries) = DisposalOf(ret).quantity

\* A disposal was split over two different tiers, each with a positive quantity.
C1_Witness ==
    /\ Disposed
    /\ \E i, j \in 1..Len(ret.entries) :
           /\ ret.entries[i].rule_type # ret.entries[j].rule_type
           /\ ret.entries[i].quantity > 0
           /\ ret.entries[j].quantity > 0

\* C2: the proceeds (amount) of the tier entries of every processed disposal
\* sum to the disposal's aggregated proceeds, and the assertion of
\* calculate_capital_gain that compares the two never fails.
C2_TierProceedsSum ==
    /\ raised_at # 438
    /\ Disposed => SumAmount(ret.entries) = DisposalOf(ret).amount

\* A disposal whose price per share is not a whole number was split over
\* two entries.
C2_Witness ==
    /\ Disposed
    /\ Len(ret.entries) >= 2
    /\ \A i \in 1..Len(ret.entries) :
           ret.entries[i].quantity > 0 /\ ret.entries[i].amount[2] # 1

\* C3: after every acquisition step and every disposal step, every symbol's
\* pool quantity in the engine portfolio is >= 0.
C3_PoolQuantityNonNegative ==
    \A s \in Symbols : portfolio[s].quantity >= 0

\* Between a bed-and-breakfast-matched disposal that emptied the pool and
\* the later acquisition it claimed.
C3_Witness ==
    /\ Disposed
    /\ pc = "second"
    /\ portfolio[ret.symbol].quantity = 0
    /\ \E d \in TradingDays :
           /\ d > date_index
           /\ has_key(bnb_list, d, ret.symbol)
           /\ Lookup(bnb_list, d, ret.symbol).quantity > 0

\* C4 as stated: whenever a symbol's pool quantity in the engine portfolio is
\* 0, after any step, its pooled cost is 0.
C4_EmptyPoolHasNoCost ==
    \A s \in Symbols :
        portfolio[s].quantity = 0 => portfolio[s].amount = Zero

\* C5: a disposal is matched same-day first, then bed-and-breakfast with the
\* acquisition dates ascending, then Section 104: the entries come in that
\* order, the SAME_DAY quantity is min(disposal quantity, same-date
\* acquisition quantity), the bed-and-breakfast entries share what the
\* same-day tier left, the SECTION_104 quantity is what remains after both,
\* and nothing is left unmatched.
C5_Waterfall ==
    /\ raised_at # 364
    /\ Disposed =>
        LET e == ret.entries
            q == DisposalOf(ret).quantity
            same_day == Min(q, SameDateAcquisitionOf(ret).quantity)
            bnb == TierQuantity(e, "BED_AND_BREAKFAST")
            rank(i) == CASE e[i].rule_type = "SAME_DAY" -> 1
                         [] e[i].rule_type = "BED_AND_BREAKFAST" -> 2
                         [] e[i].rule_type = "SECTION_104" -> 3
                         [] OTHER -> 0
        IN  /\ \A i \in 1..Len(e) : rank(i) > 0 /\ e[i].quantity >= 0
            /\ \A i, j \in 1..Len(e) : i < j => rank(i) <= rank(j)
            /\ \A i, j \in Indexes(e, "BED_AND_BREAKFAST") :
                   i < j => e[i].bed_and_breakfast_date_index
                                < e[j].bed_and_breakfast_date_index
            /\ \A i \in Indexes(e, "BED_AND_BREAKFAST") :
                   e[i].bed_and_breakfast_date_index > ret.date
            /\ Cardinality(Indexes(e, "SAME_DAY")) = (IF same_day > 0 THEN 1 ELSE 0)
            /\ TierQuantity(e, "SAME_DAY") = same_day
            /\ bnb <= q - same_day
            /\ Cardinality(Indexes(e, "SECTION_104"))
                   = (IF q - same_day - bnb > 0 THEN 1 ELSE 0)
            /\ TierQuantity(e, "SECTION_104") = q - same_day - bnb

\* A disposal matched same-day first and bed-and-breakfast next.
C5_Witness ==
    /\ Disposed
    /\ Len(ret.entries) >= 2
    /\ ret.entries[1].rule_type = "SAME_DAY"
    /\ ret.entries[2].rule_type = "BED_AND_BREAKFAST"
    /\ ret.entries[1].quantity > 0
    /\ ret.entries[2].quantity > 0

\* C6 as stated: a disposal whose quantity equals the quantity acquired on
\* its date is processed, produces exactly one entry, of rule SAME_DAY with
\* that quantity and the acquisition's amount as allowable cost, and leaves
\* the symbol's pool as it was before that date.
C6_EqualSameDayLeavesPool ==
    /\ (Disposed /\ SameDateAcquisitionOf(ret).quantity = DisposalOf(ret).quantity)
        => /\ Len(ret.entries) = 1
           /\ ret.entries[1].rule_type = "SAME_DAY"
           /\ ret.entries[1].quantity = DisposalOf(ret).quantity
           /\ ret.entries[1].allowable_cost = SameDateAcquisitionOf(ret).amount
           /\ ret.after = ret.opening
    /\ ~(/\ pc = "failed"
         /\ todo_acq = <<>>
         /\ todo_disp # <<>>
         /\ has_key(acquisition_list, date_index, Head(todo_disp))
         /\ Lookup(acquisition_list, date_index, Head(todo_disp)).quantity
                = Lookup(disposal_list, date_index, Head(todo_disp)).quantity)

C7_Ledger(symbol, date) ==
    /\ has_key(disposal_list, date, symbol)
    /\ ~has_key(acquisition_list, date, symbol)
    /\ has_key(acquisition_list, date + 5, symbol)
    /\ Lookup(acquisition_list, date + 5, symbol).quantity
           = Lookup(disposal_list, date, symbol).quantity
    /\ ~has_key(disposal_list, date + 5, symbol)
    /\ \A d \in (date + 1)..(date + BED_AND_BREAKFAST_DAYS) :
           d # date + 5 => ~has_key(acquisition_list, d, symbol)

C8_Section104 ==
    /\ LET cost == section_104_allowable_cost(Dec(1000), 40, 100)
       IN  /\ cost = Dec(400)
           /\ DSub(Dec(500), cost) = Dec(100)
           /\ pool_quantity_after_section_104(100, 40) = 60
           /\ DSub(Dec(1000), cost) = Dec(600)
    /\ Disposed =>
        \A i \in Indexes(ret.entries, "SECTION_104") :
            LET e == ret.entries[i]
                Q == PoolAt(ret, i).quantity
                C == PoolAt(ret, i).amount
                cost == DDiv(DMul(C, Dec(e.quantity)), Dec(Q))
            IN  /\ e.quantity <= Q
                /\ e.allowable_cost = cost
                /\ e.gain = DSub(e.amount, cost)
                /\ e.new_quantity = Q - e.quantity
                /\ e.new_pool_cost = DSub(C, cost)
                /\ ret.after = Position(Q - e.quantity, DSub(C, cost))

\* Part of a pool of positive cost was disposed of under Section 104.
C8_Witness ==
    /\ Disposed
    /\ \E i \in Indexes(ret.entries, "SECTION_104") :
           /\ 1 < ret.entries[i].quantity
           /\ ret.entries[i].quantity < PoolAt(ret, i).quantity
           /\ DLt(Zero, PoolAt(ret, i).amount)

\* The queued SpinOff records dated <= date whose source is symbol, as
\* <<date, index>> pairs, and an amount scaled by the proportion of each.
QueuedFor(symbol, date) ==
    {x \in (DOMAIN spin_offs) \X (1..MaxTx) :
        /\ x[1] <= date
        /\ x[2] <= Len(spin_offs[x[1]])
        /\ spin_offs[x[1]][x[2]].source = symbol}

RECURSIVE ScaledBy(_, _)
ScaledBy(amount, queued) ==
    IF queued = {} THEN amount
    ELSE LET x == CHOOSE y \in queued : TRUE
         IN  ScaledBy(DMul(amount, spin_offs[x[1]][x[2]].cost_proportion),
                      queued \ {x})

\* C9: when a spin-off of source A with cost proportion p is queued with a
\* date <= D, the disposal of A on D first sets A's pool cost to p times its
\* pool cost (once for each such record), leaves the pool quantity as it
\* was, and matches against the reduced cost: the first tier finds the pool
\* at (quantity, reduced cost), and a Section 104 entry's allowable cost is
\* its share of the reduced cost; a cost of 10000 with p = 0.9 becomes 9000.
C9_SpinOffBeforeMatching ==
    [][ /\ spin_off_new_amount(Dec(10000), Norm(9, 10)) = Dec(9000)
        /\ (/\ AtDisposal
            /\ pc' = "second"
            /\ QueuedFor(Head(todo_disp), date_index) # {})
           => LET symbol == Head(todo_disp)
                  reduced == ScaledBy(portfolio[symbol].amount,
                                      QueuedFor(symbol, date_index))
                  e == ret'.entries[1]
              IN  /\ ret'.current_amount = reduced
                  /\ ret'.spin_off_entry # <<>>
                  /\ ret'.spin_off_entry[1].new_quantity
                         = ret'.spin_off_entry[1].quantity
                  /\ e.rule_type = "SECTION_104"
                         => /\ e.allowable_cost =
                                   DDiv(DMul(reduced, Dec(e.quantity)),
                                        Dec(portfolio[symbol].quantity))
                            /\ e.new_quantity = portfolio[symbol].quantity - e.quantity
                            /\ e.new_pool_cost = DSub(reduced, e.allowable_cost)
      ]_vars

\* A disposal of the source applied a spin-off that takes part of a positive
\* pool cost away, and reached the Section 104 tier at once.
C9_Witness ==
    /\ Disposed
    /\ ret.applied # <<>>
    /\ \A i \in 1..Len(ret.applied) :
           /\ ret.applied[i].source = ret.symbol
           /\ DLt(Zero, ret.applied[i].cost_proportion)
           /\ DLt(ret.applied[i].cost_proportion, Dec(1))
    /\ DLt(Zero, ret.before.amount)
    /\ ret.entries[1].rule_type = "SECTION_104"

\* C10 as stated: over a whole run no SpinOff record is applied twice.
C10_AppliedOnce ==
    \A i, j \in 1..Len(applied_log) :
        i # j => applied_log[i] # applied_log[j]

(***************************************************************************)
(* The order of the symbols of a date.  OrderSpec reads a list of up to     *)
(* MaxTxOrder transactions drawn from fewer choices, so that a date can     *)
(* hold the disposals of both symbols while two spin-off records wait.      *)
(***************************************************************************)
MaxTxOrder == 5
OrderBuyDay == 1
OrderSellDay == 2

InitOrder ==
    /\ pc = "first"
    /\ error = "none"
    /\ raised_at = 0
    /\ tx_count = 0
    /\ tx_limit = MaxTxOrder
    /\ last_date = INTERNAL_START_DATE
    /\ balance_check = FALSE
    /\ balance = [pair \in Pairs |-> Zero]
    /\ acquisition_list = EmptyLog
    /\ disposal_list = EmptyLog
    /\ hmrc_portfolio = [s \in {} |-> NoPosition]
    /\ spin_offs = [d \in TransactionDays |-> <<>>]
    /\ date_index = NoDate
    /\ todo_acq = <<>>
    /\ todo_disp = <<>>
    /\ portfolio = [s \in Symbols |-> NoPosition]
    /\ bnb_list = EmptyLog
    /\ calculation_log = [k \in {} |-> <<>>]
    /\ totals = NoTotals
    /\ ret = NoReturn
    /\ opening = [s \in Symbols |-> NoPosition]
    /\ applied_log = <<>>
    /\ cost_log = [s \in Symbols |-> Zero]
    /\ report = NoReport

NextOrder ==
    \/ \E s \in BuySymbols, q \in 1..MaxQty : Buy(OrderBuyDay, s, q)
    \/ \E s \in Symbols, q \in 1..MaxQty : Sell(OrderSellDay, s, q)
    \/ \E d \in SpinOffDays, s \in SpinOffSymbols : SpinOffTx(d, s, SpinOffQty)
    \/ FirstPassCompleted
    \/ NextDate
    \/ ProcessAcquisition
    \/ ProcessDisposal
    \/ \E tax_year \in TaxYears : SecondPassCompleted(tax_year)

OrderSpec == InitOrder /\ [][NextOrder]_vars

\* The calculator before the disposals of a date: its pools, its claims, the
\* queued spin-off records and no entries yet.
BeforeDisposals ==
    [ok |-> TRUE, portfolio |-> portfolio, bnb_list |-> bnb_list,
     spin_offs |-> spin_offs, entries |-> [s \in Symbols |-> <<>>]]

\* The loop over the disposals of date, were it to take the symbols in the
\* order given: the calculator it leaves and the entries of each symbol.
RECURSIVE disposals_in_order(_, _, _)
disposals_in_order(order, date, run) ==
    IF order = <<>> \/ ~run.ok THEN run
    ELSE LET r == process_disposal_on(run.portfolio, run.bnb_list,
                                      run.spin_offs, Head(order), date)
         IN  disposals_in_order(Tail(order), date,
                 [ok |-> Ok(r), portfolio |-> r.portfolio,
                  bnb_list |-> r.bnb_list, spin_offs |-> r.spin_offs,
                  entries |-> [run.entries EXCEPT ![Head(order)] = r.entries]])

Reversed(order) == [i \in 1..Len(order) |-> order[Len(order) + 1 - i]]

\* Two disposals of the date are about to be processed, none is yet.
TwoDisposalsAhead ==
    /\ AtDisposal
    /\ Len(todo_disp) = 2
    /\ todo_disp = SymbolsOn(disposal_list.order, date_index)

\* C11 as stated: the disposals of a date taken in the other order leave the
\* same pool for every symbol and the same entries for every symbol.
C11_OrderOfSymbols ==
    TwoDisposalsAhead =>
        LET one == disposals_in_order(todo_disp, date_index, BeforeDisposals)
            other == disposals_in_order(Reversed(todo_disp), date_index,
                                        BeforeDisposals)
        IN  /\ one.ok = other.ok
            /\ one.ok => /\ one.portfolio = other.portfolio
                         /\ one.entries = other.entries

(***************************************************************************)
(* Transactions dated before the tax year.                                 *)
(***************************************************************************)
\* The disposals the second pass has processed so far.
ProcessedDisposals ==
    {k \in DOMAIN disposal_list.at :
        \/ k[1] < date_index
        \/ k[1] = date_index /\ \A i \in 1..Len(todo_disp) : todo_disp[i] # k[2]}

InYearDisposals == {k \in ProcessedDisposals : k[1] >= TaxYearStart}

RECURSIVE SumOf(_, _)
SumOf(f, keys) ==
    IF keys = {} THEN Zero
    ELSE LET k == CHOOSE x \in keys : TRUE
         IN  DAdd(f[k], SumOf(f, keys \ {k}))

\* The chargeable gain of a logged disposal, from its logged entries.
LoggedGain(k) == round_decimal_2(SumGain(calculation_log[<<k[1], "sell", k[2]>>]))

\* C12: acquisitions and disposals dated before the tax year start change the
\* pool and the bed-and-breakfast claims as in-year ones do, the totals and
\* the report count the in-year disposals only, and an in-year disposal of a
\* pool built before the tax year takes its allowable cost from that pool.
C12_PreYearTransactions ==
    LET proceeds == [k \in InYearDisposals |-> disposal_list.at[k].amount]
        gains == [k \in InYearDisposals |-> LoggedGain(k)]
        won == {k \in InYearDisposals : DLt(Zero, gains[k])}
        acquired == {k \in DOMAIN acquisition_list.at :
                        k[2] = ret.symbol /\ k[1] <= ret.date}
        sold == {k \in DOMAIN disposal_list.at :
                        k[2] = ret.symbol /\ k[1] <= ret.date}
    IN  /\ \A k \in DOMAIN calculation_log :
               k[2] \in {"buy", "sell"} => k[1] >= TaxYearStart
        /\ \A k \in InYearDisposals : <<k[1], "sell", k[2]>> \in DOMAIN calculation_log
        /\ totals.disposal_count = Cardinality(InYearDisposals)
        /\ totals.disposal_proceeds = SumOf(proceeds, InYearDisposals)
        /\ totals.allowable_costs =
               DSub(SumOf(proceeds, InYearDisposals), SumOf(gains, InYearDisposals))
        /\ totals.capital_gain = SumOf(gains, won)
        /\ totals.capital_loss = SumOf(gains, InYearDisposals \ won)
        /\ report.returned =>
               /\ report.disposal_count = totals.disposal_count
               /\ report.disposal_proceeds = round_decimal_2(totals.disposal_proceeds)
               /\ report.allowable_costs = round_decimal_2(totals.allowable_costs)
               /\ report.capital_gain = round_decimal_2(totals.capital_gain)
               /\ report.capital_loss = round_decimal_2(totals.capital_loss)
        /\ (ret.call = "acquisition" /\ ret.date < TaxYearStart) =>
               LET acquisition == Lookup(acquisition_list, ret.date, ret.symbol)
               IN  ret.after = PositionAdd(ret.before,
                                   Position(acquisition.quantity, acquisition.amount))
        /\ Disposed =>
               /\ ret.after.quantity = ret.before.quantity - DisposalOf(ret).quantity
               /\ \A i \in Indexes(ret.entries, "BED_AND_BREAKFAST") :
                      LET e == ret.entries[i]
                      IN  /\ has_key(bnb_list, e.bed_and_breakfast_date_index, ret.symbol)
                          /\ Lookup(bnb_list, e.bed_and_breakfast_date_index,
                                    ret.symbol).quantity >= e.quantity
        /\ ( /\ Disposed
             /\ ret.date >= TaxYearStart
             /\ applied_log = <<>>
             /\ Indexes(ret.entries, "BED_AND_BREAKFAST") = {}
             /\ acquired = {<<INTERNAL_START_DATE, ret.symbol>>}
             /\ sold = {<<ret.date, ret.symbol>>} ) =>
               LET acquisition == Lookup(acquisition_list, INTERNAL_START_DATE, ret.symbol)
               IN  /\ Len(ret.entries) = 1
                   /\ ret.entries[1].rule_type = "SECTION_104"
                   /\ ret.entries[1].allowable_cost =
                          DDiv(DMul(acquisition.amount, Dec(DisposalOf(ret).quantity)),
                               Dec(acquisition.quantity))

\* A run that ended after a disposal dated before the tax year and one dated
\* in it, the second drawing on a pool bought before the tax year.
C12_Witness ==
    /\ pc = "done"
    /\ Disposed
    /\ ret.date >= TaxYearStart
    /\ ret.opening.quantity > 0
    /\ \E k \in ProcessedDisposals : k[1] < TaxYearStart
    /\ totals.disposal_count = 1
    /\ Cardinality(ProcessedDisposals) = 2

(***************************************************************************)
(* The allowance of the report.                                            *)
(***************************************************************************)
\* C13: for a tax year the allowance table does not list, the calculation
\* ends without an error and returns a report whose capital_gain_allowance is
\* None, and the summary prints the missing-allowance warning in place of the
\* taxable gain; for a listed year the report holds the listed allowance.
C13_MissingAllowance ==
    report.returned =>
        /\ pc = "done"
        /\ error = "none"
        /\ raised_at = 0
        /\ report.tax_year \notin DOMAIN CAPITAL_GAIN_ALLOWANCES =>
               /\ report.capital_gain_allowance = None
               /\ taxable_gain_line(report) = "WARNING: Missing allowance for this tax year"
        /\ report.tax_year \in DOMAIN CAPITAL_GAIN_ALLOWANCES =>
               /\ report.capital_gain_allowance = Dec(CAPITAL_GAIN_ALLOWANCES[report.tax_year])
               /\ taxable_gain_line(report) = "Taxable capital gain"

\* A report for the unlisted year after a disposal with a gain.
C13_Witness ==
    /\ report.returned
    /\ report.tax_year = UnlistedTaxYear
    /\ report.disposal_count > 0
    /\ DLt(Zero, report.capital_gain)

(***************************************************************************)
(* Disposals of shares that are not held.                                  *)
(***************************************************************************)
\* A SELL or a CASH_MERGER transaction of q shares of s dated d is read.
Sold(d, s, q) ==
    \/ Transaction("SELL", SharePair, d, s, q, CashIn)
    \/ Transaction("CASH_MERGER", SharePair, d, s, q, CashIn)

\* C14: a SELL or CASH_MERGER of a symbol that is not held, or of more shares
\* than are held, is rejected with InvalidTransactionError and adds nothing to
\* the disposal log; one of shares that are held is not rejected so.
C14_SellNotHeld ==
    [][\A d \in TransactionDays, s \in Symbols, q \in 1..MaxQty :
           Sold(d, s, q) =>
               IF PositionOf(hmrc_portfolio, s).quantity < q
               THEN /\ pc' = "failed"
                    /\ error' = "InvalidTransactionError"
                    /\ raised_at' \in {228, 234}
                    /\ (raised_at' = 228) = (s \notin DOMAIN hmrc_portfolio)
                    /\ disposal_list' = disposal_list
                    /\ hmrc_portfolio' = hmrc_portfolio
               ELSE /\ error' # "InvalidTransactionError"
                    /\ has_key(disposal_list', d, s)]_vars

\* A sale of more shares than are left was rejected after an earlier sale of
\* the same symbol had been logged.
C14_Witness ==
    /\ pc = "failed"
    /\ error = "InvalidTransactionError"
    /\ raised_at = 234
    /\ disposal_list.order # <<>>
    /\ \E s \in DOMAIN hmrc_portfolio : hmrc_portfolio[s].quantity > 0

\* A sale of a symbol that was never bought was rejected.
C14_WitnessNotHeld ==
    /\ pc = "failed"
    /\ error = "InvalidTransactionError"
    /\ raised_at = 228

(***************************************************************************)
(* The balance check of the first pass.                                    *)
(***************************************************************************)
\* The balance of the pair after a transaction that changes it by amount.
BalanceAfter(pair, amount) == DAdd(balance[pair], amount)

\* What the end of a transaction that leaves new_balance for pair must be.
BalanceChecked(pair, new_balance) ==
    IF balance_check /\ DLt(new_balance, Zero)
    THEN /\ pc' = "failed"
         /\ error' = "CalculationError"
         /\ raised_at' = 355
    ELSE /\ pc' = "first"
         /\ error' = "none"
         /\ balance' = [balance EXCEPT ![pair] = new_balance]

\* C15: with balance_check enabled the first pass raises CalculationError at
\* the first transaction that leaves the balance of its (broker, currency)
\* pair negative, whatever the balances of the other pairs, so while it runs
\* every balance is >= 0; with balance_check disabled it never raises it.
C15_BalanceCheck ==
    /\ [](balance_check => \A pair \in Pairs : DLe(Zero, balance[pair]))
    /\ [](error = "CalculationError" => balance_check /\ raised_at = 355)
    /\ [][\A pair \in Pairs, d \in TransactionDays, amount \in CashAmounts :
              CashOnly(d, pair, amount) =>
                  BalanceChecked(pair, BalanceAfter(pair, Dec(amount)))]_vars
    /\ [][\A d \in TransactionDays, s \in BuySymbols, q \in 1..MaxQty :
              Buy(d, s, q) =>
                  BalanceChecked(SharePair,
                      BalanceAfter(SharePair,
                          DNeg(DAdd(DMul(Dec(q), Dec(BuyPrice(d))), Dec(Commission)))))]_vars

\* A purchase was refused for want of cash in its pair while the other pair
\* held cash.
C15_Witness ==
    /\ balance_check
    /\ pc = "failed"
    /\ error = "CalculationError"
    /\ acquisition_list.order # <<>>
    /\ balance[SharePair] = Zero
    /\ \E pair \in Pairs : DLt(Zero, balance[pair])

\* Without the check the run ended with a negative balance.
C15_WitnessDisabled ==
    /\ ~balance_check
    /\ pc = "done"
    /\ DLt(balance[SharePair], Zero)

(***************************************************************************)
(* What each kind of transaction does to the acquisition and disposal      *)
(* lists.                                                                  *)
(***************************************************************************)
AcquisitionKinds == {"BUY", "REINVEST_SHARES", "STOCK_ACTIVITY", "SPIN_OFF", "STOCK_SPLIT"}
DisposalKinds == {"SELL", "CASH_MERGER"}
CashKinds ==
    {"DIVIDEND", "CAPITAL_GAIN", "TAX", "ADJUSTMENT", "INTEREST", "TRANSFER",
     "WIRE_FUNDS_RECEIVED"}

\* The step adds to the acquisition list, under (d, s), and to nothing else.
AcquisitionOnly(d, s) ==
    /\ disposal_list' = disposal_list
    /\ acquisition_list' # acquisition_list
    /\ has_key(acquisition_list', d, s)
    /\ \A k \in DOMAIN acquisition_list.at \ {<<d, s>>} :
           acquisition_list'.at[k] = acquisition_list.at[k]
    /\ error' # "InvalidTransactionError"

\* The step adds to the disposal list, under (d, s), and to nothing else,
\* unless the shares are not held.
DisposalOnly(d, s) ==
    /\ acquisition_list' = acquisition_list
    /\ IF error' = "InvalidTransactionError"
       THEN disposal_list' = disposal_list
       ELSE /\ disposal_list' # disposal_list
            /\ has_key(disposal_list', d, s)
            /\ \A k \in DOMAIN disposal_list.at \ {<<d, s>>} :
                   disposal_list'.at[k] = disposal_list.at[k]

NoLotEntry ==
    /\ acquisition_list' = acquisition_list
    /\ disposal_list' = disposal_list
    /\ hmrc_portfolio' = hmrc_portfolio
    /\ spin_offs' = spin_offs

IgnoredKind ==
    /\ NoLotEntry
    /\ balance' = balance
    /\ pc' = "first"
    /\ error' = "none"

FailedKind ==
    /\ NoLotEntry
    /\ balance' = balance
    /\ pc' = "failed"
    /\ error' = "InvalidTransactionError"
    /\ raised_at' = 336

\* A transaction of a kind that reads no amount of cash from its record, and
\* one of a kind that reads no symbol and no quantity.
ShareTransaction(action, d, s, q) == Transaction(action, SharePair, d, s, q, CashIn)
CashTransaction(action, pair, d, amount) == Transaction(action, pair, d, "none", 0, amount)

\* What the claim says of a transaction whose kind is not FEE.
KindEffect(action, d, s) ==
    IF action \in AcquisitionKinds THEN AcquisitionOnly(d, s)
    ELSE IF action \in DisposalKinds THEN DisposalOnly(d, s)
    ELSE IF action \in CashKinds THEN NoLotEntry /\ error' # "InvalidTransactionError"
    ELSE IF action = "REINVEST_DIVIDENDS" THEN IgnoredKind
    ELSE FailedKind

\* C16 as stated: the kinds the claim does not list, FEE among them, fail
\* the run with InvalidTransactionError.
C16_AsStated ==
    [][pc = "first" =>
          /\ \A action \in ActionTypes \ CashKinds, d \in TransactionDays, s \in Symbols,
                q \in 1..MaxQty :
                 ShareTransaction(action, d, s, q) => KindEffect(action, d, s)
          /\ \A action \in CashKinds, pair \in Pairs, d \in TransactionDays,
                amount \in CashAmounts :
                 CashTransaction(action, pair, d, amount) =>
                     KindEffect(action, d, "none")]_vars

\* C16, amended: BUY, REINVEST_SHARES, STOCK_ACTIVITY, SPIN_OFF and
\* STOCK_SPLIT add to the acquisition list only; SELL and CASH_MERGER add to
\* the disposal list only; FEE adds a record of quantity 0 to the acquisition
\* list only; DIVIDEND, CAPITAL_GAIN, TAX, ADJUSTMENT, INTEREST, TRANSFER and
\* WIRE_FUNDS_RECEIVED change neither list; REINVEST_DIVIDENDS changes nothing;
\* the one remaining kind, UNKNOWN, fails the run with InvalidTransactionError.
C16_EffectByKind ==
    [][pc = "first" =>
          /\ \A action \in ActionTypes \ CashKinds, d \in TransactionDays, s \in Symbols,
                q \in 1..MaxQty :
                 ShareTransaction(action, d, s, q) =>
                     IF action = "FEE"
                     THEN /\ AcquisitionOnly(d, s)
                          /\ hmrc_portfolio' = hmrc_portfolio
                          /\ Lookup(acquisition_list', d, s).quantity =
                                 IF has_key(acquisition_list, d, s)
                                 THEN Lookup(acquisition_list, d, s).quantity
                                 ELSE 0
                     ELSE KindEffect(action, d, s)
          /\ \A action \in CashKinds, pair \in Pairs, d \in TransactionDays,
                amount \in CashAmounts :
                 CashTransaction(action, pair, d, amount) =>
                     KindEffect(action, d, "none")]_vars

\* A first pass that read a transaction that only moves cash, a purchase, a
\* fee and a sale.
C16_Witness ==
    /\ pc = "second"
    /\ \E pair \in Pairs \ {SharePair} : balance[pair] # Zero
    /\ disposal_list.order # <<>>
    /\ \E k \in DOMAIN acquisition_list.at :
           /\ acquisition_list.at[k].quantity = 0
           /\ DLt(Zero, acquisition_list.at[k].fees)
    /\ \E k \in DOMAIN acquisition_list.at : acquisition_list.at[k].quantity > 0

(***************************************************************************)
(* The check made when a CalculationEntry is constructed.                  *)
(***************************************************************************)
\* The source lines at which the second pass constructs a CalculationEntry.
EntryLines == {91, 118, 220, 320, 351}

\* C17 as stated: no entry the second pass constructs fails the check of
\* CalculationEntry.__post_init__ (gain == amount - allowable_cost when the
\* amount is >= 0 and the rule is not SPIN_OFF), and every logged entry
\* satisfies it.
C17_ConstructionCheck ==
    /\ ~(error = "AssertionError" /\ raised_at \in EntryLines)
    /\ \A k \in DOMAIN calculation_log :
           \A i \in 1..Len(calculation_log[k]) : post_init_ok(calculation_log[k][i])

(***************************************************************************)
(* The bed-and-breakfast loop after the disposal is fully matched.         *)
(***************************************************************************)
\* C18 as stated: every BED_AND_BREAKFAST entry of a disposal and every
\* claim in bnb_list has quantity > 0, and no disposal fails on the division
\* by the pool's quantity in the bed-and-breakfast loop.
C18_NothingAfterFullMatch ==
    /\ \A k \in DOMAIN bnb_list.at : bnb_list.at[k].quantity > 0
    /\ Disposed =>
           \A i \in Indexes(ret.entries, "BED_AND_BREAKFAST") :
               ret.entries[i].quantity > 0
    /\ ~(pc = "failed" /\ raised_at = 300)

(***************************************************************************)
(* The shares of an acquisition that are matched to disposals.             *)
(***************************************************************************)
QuantityAt(log, k) == IF k \in DOMAIN log.at THEN log.at[k].quantity ELSE 0

\* C19: for every acquisition, of quantity a, the quantity the same-day rule
\* matches to it plus the quantity claimed from it in bnb_list by the
\* bed-and-breakfast matches of the disposals processed so far is at most a.
C19_NoDoubleCounting ==
    /\ \A k \in DOMAIN bnb_list.at : k \in DOMAIN acquisition_list.at
    /\ \A k \in DOMAIN acquisition_list.at :
           LET a == acquisition_list.at[k].quantity
           IN  /\ QuantityAt(bnb_list, k) <= a
               /\ Min(QuantityAt(disposal_list, k), a) + QuantityAt(bnb_list, k) <= a
    /\ Disposed =>
           LET k == <<ret.date, ret.symbol>>
               same_day == TierQuantity(ret.entries, "SAME_DAY")
           IN  /\ same_day = Min(DisposalOf(ret).quantity, QuantityAt(acquisition_list, k))
               /\ same_day + QuantityAt(bnb_list, k) <= QuantityAt(acquisition_list, k)

\* A disposal was matched by the same-day rule to an acquisition from which
\* an earlier disposal had claimed shares by the bed-and-breakfast rule.
C19_Witness ==
    /\ Disposed
    /\ TierQuantity(ret.entries, "SAME_DAY") > 0
    /\ QuantityAt(bnb_list, <<ret.date, ret.symbol>>) > 0

(***************************************************************************)
(* The window of the bed-and-breakfast rule.                               *)
(***************************************************************************)
\* C20: the bed-and-breakfast entries of a disposal dated D name acquisitions
\* of the disposal's symbol dated D+1 to D+30, in ascending order of date, and
\* an acquisition of the window dated before a matched one was matched too
\* or had no unmatched shares left; none dated D+31 or later is matched.
C20_Window ==
    Disposed =>
        LET matched == Indexes(ret.entries, "BED_AND_BREAKFAST")
        IN  /\ \A i \in matched :
                   LET on == ret.entries[i].bed_and_breakfast_date_index
                   IN  /\ on >= ret.date + 1
                       /\ on <= ret.date + BED_AND_BREAKFAST_DAYS
                       /\ has_key(acquisition_list, on, ret.symbol)
                       /\ has_key(bnb_list, on, ret.symbol)
                       /\ \A k \in DOMAIN acquisition_list.at :
                              (k[2] = ret.symbol /\ k[1] > ret.date /\ k[1] < on) =>
                                  \/ \E j \in matched :
                                         /\ j < i
                                         /\ ret.entries[j].bed_and_breakfast_date_index = k[1]
                                  \/ QuantityAt(disposal_list, k) + QuantityAt(bnb_list, k)
                                         >= acquisition_list.at[k].quantity
            /\ \A i, j \in matched :
                   i < j => ret.entries[i].bed_and_breakfast_date_index
                                < ret.entries[j].bed_and_breakfast_date_index

\* A disposal matched to an acquisition inside the window and then to the
\* one dated exactly 30 days after it.
C20_Witness ==
    /\ Disposed
    /\ \E i, j \in Indexes(ret.entries, "BED_AND_BREAKFAST") :
           /\ i < j
           /\ ret.entries[i].quantity > 0
           /\ ret.entries[j].quantity > 0
           /\ ret.entries[j].bed_and_breakfast_date_index =
                  ret.date + BED_AND_BREAKFAST_DAYS

\* A disposal with an acquisition of its symbol 31 days after it, unmatched.
C20_WitnessOutside ==
    /\ Disposed
    /\ has_key(acquisition_list, ret.date + BED_AND_BREAKFAST_DAYS + 1, ret.symbol)
    /\ Indexes(ret.entries, "SECTION_104") # {}

(***************************************************************************)
(* An acquisition that carries a bed-and-breakfast claim.                  *)
(***************************************************************************)
\* C21 as stated: an acquisition of a units at cost c from which b units,
\* 0 < b <= a, are claimed is processed, gives a BED_AND_BREAKFAST entry of
\* quantity b and a SECTION_104 entry of quantity a - b exactly when a - b > 0,
\* and with the claiming disposals' bed-and-breakfast tier the pool changes
\* by a - b units and c * (a - b) / a of cost.
C21_ClaimedAcquisition ==
    [][(/\ AtAcquisition
        /\ has_key(bnb_list, date_index, Head(todo_acq))
        /\ Lookup(bnb_list, date_index, Head(todo_acq)).quantity > 0
        /\ Lookup(bnb_list, date_index, Head(todo_acq)).quantity
               <= Lookup(acquisition_list, date_index, Head(todo_acq)).quantity)
       => LET symbol == Head(todo_acq)
              a == Lookup(acquisition_list, date_index, symbol).quantity
              c == Lookup(acquisition_list, date_index, symbol).amount
              b == Lookup(bnb_list, date_index, symbol).quantity
              claimed_cost == Lookup(bnb_list, date_index, symbol).amount
          IN  /\ pc' = "second"
              /\ ret'.call = "acquisition"
              /\ Len(ret'.entries) = IF a - b > 0 THEN 2 ELSE 1
              /\ ret'.entries[1].rule_type = "BED_AND_BREAKFAST"
              /\ ret'.entries[1].quantity = b
              /\ a - b > 0 => /\ ret'.entries[2].rule_type = "SECTION_104"
                              /\ ret'.entries[2].quantity = a - b
              /\ portfolio'[symbol].quantity - b = portfolio[symbol].quantity + (a - b)
              /\ DSub(portfolio'[symbol].amount, claimed_cost) =
                     DAdd(portfolio[symbol].amount,
                          DDiv(DMul(c, Dec(a - b)), Dec(a)))]_vars

(***************************************************************************)
(* The disposal that applies a queued spin-off.                            *)
(***************************************************************************)
\* C22 as stated: the spin-off records a disposal applies are records of the
\* disposed symbol's own pool, dated on or before the disposal; a disposal
\* of another symbol applies none.
C22_AppliedAtSourceDisposal ==
    Disposed =>
        \A i \in 1..Len(ret.applied) :
            /\ ret.applied[i].source = ret.symbol
            /\ ret.applied[i].date <= ret.date

(***************************************************************************)
(* What a spin-off scales.                                                 *)
(***************************************************************************)
\* The acquisitions of symbol dated from the day after `after` up to `upto`.
AcquiredBetween(symbol, after, upto) ==
    {k \in DOMAIN acquisition_list.at :
        k[2] = symbol /\ k[1] > after /\ k[1] <= upto}

\* C23 as stated: when the first disposal of a symbol applies one spin-off
\* record of that symbol, the pool cost it matches against is the cost of the
\* acquisitions dated up to the spin-off date times cost_proportion, plus the
\* unscaled cost of the acquisitions dated after the spin-off date.
C23_LaterAcquisitionsUnscaled ==
    ( /\ Disposed
      /\ Len(ret.applied) = 1
      /\ ret.applied[1].source = ret.symbol
      /\ \A k \in DOMAIN disposal_list.at :
             (k[2] = ret.symbol /\ k[1] <= ret.date) => k[1] = ret.date ) =>
        LET spin_off == ret.applied[1]
            cost == [k \in DOMAIN acquisition_list.at |-> acquisition_list.at[k].amount]
            early == AcquiredBetween(ret.symbol, NoDate, spin_off.date)
            late == AcquiredBetween(ret.symbol, spin_off.date, ret.date)
        IN  ret.current_amount =
                DAdd(DMul(SumOf(cost, early), spin_off.cost_proportion),
                     SumOf(cost, late))

\* C24 as stated: the acquisition cost of the shares received by a SPIN_OFF
\* equals (1 - cost_proportion) times the Section 104 pool cost the source
\* holds at the spin-off date (quoted in pence), also when the source was
\* sold from before the spin-off.  Read where the loop over the dates is
\* about to pool the received shares, for a date with one SPIN_OFF and
\* neither an acquisition nor a disposal of the source.
C24_SpinOffCost ==
    \A dest \in SpinOffSymbols :
        ( /\ AtAcquisition
          /\ Head(todo_acq) = dest
          /\ date_index \in SpinOffDays
          /\ Len(spin_offs[date_index]) = 1
          /\ spin_offs[date_index][1].dest = dest
          /\ ~has_key(acquisition_list, date_index, spin_offs[date_index][1].source)
          /\ ~has_key(disposal_list, date_index, spin_offs[date_index][1].source) ) =>
            LET spin_off == spin_offs[date_index][1]
                pooled_cost == PositionOf(portfolio, spin_off.source).amount
            IN  Lookup(acquisition_list, date_index, dest).amount =
                    round_decimal_2(DMul(DSub(Dec(1), spin_off.cost_proportion),
                                         pooled_cost))

\* The cost the pool of source holds before the i-th record of applied is
\* applied, for a pool that held cost before the first.
RECURSIVE CostBefore(_, _, _, _)
CostBefore(applied, i, source, cost) ==
    IF i = 1 THEN cost
    ELSE LET earlier == CostBefore(applied, i - 1, source, cost)
         IN  IF applied[i - 1].source = source
             THEN DMul(earlier, applied[i - 1].cost_proportion)
             ELSE earlier

\* C25 as stated: every SpinOff record an in-tax-year disposal applies to a
\* pool has, after the disposal, a SPIN_OFF entry in the calculation log, of
\* amount minus the pool cost before the record was applied and of
\* new_pool_cost the pool cost after it, also when the disposal applies
\* several records.
C25_SpinOffLogged ==
    [][(AtDisposal /\ date_index >= TaxYearStart /\ pc' = "second") =>
        \A i \in 1..Len(ret'.applied) :
            LET spin_off == ret'.applied[i]
                key == <<spin_off.date, "spin-off", spin_off.source>>
                before == CostBefore(ret'.applied, i, spin_off.source,
                                     portfolio[spin_off.source].amount)
            IN  /\ key \in DOMAIN calculation_log'
                /\ \E j \in 1..Len(calculation_log'[key]) :
                       LET entry == calculation_log'[key][j]
                       IN  /\ entry.rule_type = "SPIN_OFF"
                           /\ entry.spin_off = spin_off
                           /\ entry.amount = DNeg(before)
                           /\ entry.new_pool_cost =
                                  DMul(before, spin_off.cost_proportion)]_vars

\* The entry a list holds for (date, symbol), the empty entry when none.
EntryOf(log, date, symbol) ==
    IF has_key(log, date, symbol) THEN Lookup(log, date, symbol) ELSE NoData

\* C26: a FEE transaction for a symbol adds quantity 0 and the fee in pounds,
\* as amount and as fees, to the symbol's acquisition entry of its date; when
\* the loop over the dates processes an entry made of FEE transactions only,
\* the pool's quantity stays and the pool's cost grows by the entry's amount;
\* and no same-day match and no bed-and-breakfast match or claim is ever made
\* against such an entry.
C26_FeeAcquisition ==
    /\ [](/\ Disposed =>
              /\ Indexes(ret.entries, "SAME_DAY") # {} =>
                     SameDateAcquisitionOf(ret).quantity > 0
              /\ \A i \in Indexes(ret.entries, "BED_AND_BREAKFAST") :
                     EntryOf(acquisition_list,
                             ret.entries[i].bed_and_breakfast_date_index,
                             ret.symbol).quantity > 0
          /\ \A k \in DOMAIN bnb_list.at :
                 EntryOf(acquisition_list, k[1], k[2]).quantity > 0)
    /\ [][/\ \A d \in FeeDays, s \in FeeSymbols :
                 Fee(d, s) =>
                     LET old == EntryOf(acquisition_list, d, s)
                     IN  Lookup(acquisition_list', d, s) =
                             HmrcTransactionData(old.quantity,
                                 DAdd(old.amount, Dec(FeeAmount)),
                                 DAdd(old.fees, Dec(FeeAmount)))
          /\ ( /\ AtAcquisition
               /\ Lookup(acquisition_list, date_index, Head(todo_acq)).quantity = 0 ) =>
                 LET symbol == Head(todo_acq)
                     acquisition == Lookup(acquisition_list, date_index, symbol)
                 IN  /\ pc' = "second"
                     /\ portfolio'[symbol].quantity = portfolio[symbol].quantity
                     /\ portfolio'[symbol].amount =
                            DAdd(portfolio[symbol].amount, acquisition.amount)
                     /\ acquisition.amount = acquisition.fees
                     /\ DLe(Dec(FeeAmount), acquisition.amount)]_vars

\* A FEE charged within thirty days after a disposal of the symbol, on a date
\* without a purchase, was processed: the pool's cost grew by the fee.
C26_WitnessFeeOnly ==
    /\ ret.call = "acquisition"
    /\ EntryOf(acquisition_list, ret.date, ret.symbol).quantity = 0
    /\ ret.after.quantity = ret.before.quantity
    /\ ret.after.quantity > 0
    /\ ret.after.amount = DAdd(ret.before.amount, Dec(FeeAmount))
    /\ \E k \in DOMAIN disposal_list.at :
           /\ k[2] = ret.symbol
           /\ k[1] < ret.date
           /\ ret.date - k[1] <= BED_AND_BREAKFAST_DAYS

\* The acquisitions of a symbol the loop over the dates has processed.
ProcessedAcquisitions(symbol) ==
    {k \in DOMAIN acquisition_list.at :
        /\ k[2] = symbol
        /\ \/ k[1] < date_index
           \/ k[1] = date_index /\ \A i \in 1..Len(todo_acq) : todo_acq[i] # symbol}

\* No SpinOff record was ever queued: none is left and none was applied.
NoSpinOffs == applied_log = <<>> /\ \A d \in DOMAIN spin_offs : spin_offs[d] = <<>>

\* The bed-and-breakfast claims of a symbol on acquisitions not processed.
ClaimsLeft(symbol) ==
    {k \in DOMAIN bnb_list.at : k[2] = symbol /\ k \notin ProcessedAcquisitions(symbol)}

\* C27: cost is conserved.  When the loop over the dates has ended, for a
\* symbol without a spin-off and without a bed-and-breakfast claim left on an
\* acquisition the loop did not process, the amounts of the processed
\* acquisitions sum to the final pool cost plus the allowable cost of every
\* tier entry of every processed disposal.
C27_CostConserved ==
    \A symbol \in Symbols :
        (pc = "done" /\ NoSpinOffs /\ ClaimsLeft(symbol) = {}) =>
            LET cost == [k \in DOMAIN acquisition_list.at |->
                            acquisition_list.at[k].amount]
            IN  SumOf(cost, ProcessedAcquisitions(symbol)) =
                    DAdd(portfolio[symbol].amount, cost_log[symbol])

\* A run that ended with shares left in the pool after a same-day match and
\* a bed-and-breakfast match whose claim the later purchase has settled.
C27_WitnessAllRules ==
    /\ pc = "done"
    /\ NoSpinOffs
    /\ \E symbol \in Symbols :
           /\ ClaimsLeft(symbol) = {}
           /\ \E k \in DOMAIN bnb_list.at : k[2] = symbol
           /\ \E k \in DOMAIN disposal_list.at :
                  k[2] = symbol /\ k \in DOMAIN acquisition_list.at
           /\ portfolio[symbol].quantity > 0
           /\ DLt(Zero, cost_log[symbol])

\* The quantity the entries of a list hold under the keys keys.
RECURSIVE QuantityOf(_, _)
QuantityOf(log, keys) ==
    IF keys = {} THEN 0
    ELSE LET k == CHOOSE x \in keys : TRUE
         IN  log.at[k].quantity + QuantityOf(log, keys \ {k})

\* C28: quantity is conserved.  Wherever the loop over the dates stands, and
\* so after every prefix of the dates, each symbol's pool holds the quantity
\* of its processed acquisitions minus the quantity of its processed
\* disposals; a disposal takes its whole quantity from the pool on its own
\* date and an acquisition adds its whole quantity on its own date, whatever
\* the bed-and-breakfast rule matched or claimed.
C28_QuantityConserved ==
    /\ pc \in {"second", "done"} =>
           \A symbol \in Symbols :
               portfolio[symbol].quantity =
                   QuantityOf(acquisition_list, ProcessedAcquisitions(symbol))
                   - QuantityOf(disposal_list,
                                {k \in ProcessedDisposals : k[2] = symbol})
    /\ Disposed => ret.after.quantity = ret.before.quantity - DisposalOf(ret).quantity
    /\ ret.call = "acquisition" =>
           ret.after.quantity = ret.before.quantity
               + Lookup(acquisition_list, ret.date, ret.symbol).quantity

\* An acquisition claimed by the bed-and-breakfast match of an earlier
\* disposal was processed, and the pool still holds shares bought earlier.
C28_WitnessClaimedAcquisition ==
    /\ ret.call = "acquisition"
    /\ has_key(bnb_list, ret.date, ret.symbol)
    /\ Lookup(bnb_list, ret.date, ret.symbol).quantity > 0
    /\ ret.before.quantity > 0
    /\ \E k \in ProcessedDisposals : k[2] = ret.symbol /\ k[1] < ret.date

(***************************************************************************)
(* Transactions dated before the first date of the loop.  The first pass   *)
(* reads a transaction of any date; the loop of calculate_capital_gain     *)
(* starts at INTERNAL_START_DATE.  EarlySpec reads a list of up to         *)
(* MaxTxEarly purchases and sales whose purchases can be dated EarlyDay.   *)
(***************************************************************************)
MaxTxEarly == 3
EarlyDay == INTERNAL_START_DATE - 2

InitEarly ==
    /\ pc = "first"
    /\ error = "none"
    /\ raised_at = 0
    /\ tx_count = 0
    /\ tx_limit = MaxTxEarly
    /\ last_date = EarlyDay
    /\ balance_check = FALSE
    /\ balance = [pair \in Pairs |-> Zero]
    /\ acquisition_list = EmptyLog
    /\ disposal_list = EmptyLog
    /\ hmrc_portfolio = [s \in {} |-> NoPosition]
    /\ spin_offs = [d \in TransactionDays |-> <<>>]
    /\ date_index = NoDate
    /\ todo_acq = <<>>
    /\ todo_disp = <<>>
    /\ portfolio = [s \in Symbols |-> NoPosition]
    /\ bnb_list = EmptyLog
    /\ calculation_log = [k \in {} |-> <<>>]
    /\ totals = NoTotals
    /\ ret = NoReturn
    /\ opening = [s \in Symbols |-> NoPosition]
    /\ applied_log = <<>>
    /\ cost_log = [s \in Symbols |-> Zero]
    /\ report = NoReport

NextEarly ==
    \/ \E d \in {EarlyDay} \cup TradingDays, s \in BuySymbols, q \in 1..MaxQty :
           Buy(d, s, q)
    \/ \E d \in TradingDays, s \in Symbols, q \in 1..MaxQty : Sell(d, s, q)
    \/ FirstPassCompleted
    \/ NextDate
    \/ ProcessAcquisition
    \/ ProcessDisposal
    \/ \E tax_year \in TaxYears : SecondPassCompleted(tax_year)

EarlySpec == InitEarly /\ [][NextEarly]_vars

\* C29 as stated: for every list in date order that the first pass accepted,
\* when the loop over the dates comes to a disposal, after the acquisitions
\* of its date, the disposal's aggregated quantity is at most the quantity
\* the symbol's pool holds, and the assertion of line 183 never fails.
C29_PreconditionHolds ==
    /\ AtDisposal =>
           Lookup(disposal_list, date_index, Head(todo_disp)).quantity
               <= portfolio[Head(todo_disp)].quantity
    /\ raised_at # 183

====
